---- MODULE Spec2Model ----
(***************************************************************************)
(* rdmalib: connection bring-up (Cluster / Peer / RC / XRC), the memory    *)
(* region tables of Context and Peer, and the XRC send/receive path.       *)
(***************************************************************************)
EXTENDS Integers, Sequences, FiniteSets, TLC

(***************************************************************************)
(* Bounds of the model.                                                    *)
(***************************************************************************)
NumRanks == 2        \* MPI ranks in the cluster
NumThreads == 2      \* caller threads per rank
MaxConn == 2         \* largest num_rc + num_xrc a caller passes
MaxFaults == 1       \* verbs calls the NIC rejects in one run
MaxExtra == 1        \* establish calls in one run that do not bring the cluster up
MaxSends == 2        \* XRC post_send calls in one run
MaxRecvs == 2        \* XRC post_recv calls in one run
MaxRegs == 4         \* reg_mr calls in one run
BufLen == 128        \* bytes of the buffer each rank registers for RC traffic
MaxRegCalls == 5     \* reg_mr calls in one run of the registration specification
WordBits == 4        \* bits of a word of the buffers (64 in the program)
MaxPosts == 2        \* post_* calls in one run of the posting specification
MaxWrites == 3       \* posts in one run of the WRITE ordering specification
RingSize == 3        \* ranks of the ring of the hello program
MaxRptrCalls == 4    \* calls on rptr objects in one run
Batch == 2           \* CAS requests in a batch of the cas-ordering program
NTests == 3          \* batches of the cas-ordering program
FaaRanks == 3        \* ranks adding to one another's words
MaxFaas == 3         \* post_atomic_faa calls in one run
MaxFieldFaas == 2    \* post_field_atomic_faa calls in one run
MaxFieldAdd == 3     \* largest value added to a field
MaxElapsed == 2      \* microseconds that pass during one timed call
PollChunk == 2       \* completions a blocking poll takes in one chunk (32)
MaxPolled == 4       \* signaled requests posted before a poll
MaxBatch == 2        \* work requests in one batch post (MaxPostWR = 32)
MaxBatchPosts == 3   \* work requests posted in a run of batches
MaxMaskedCalls == 2  \* masked_compare_exchange calls and stores in one run
LiveRanks == 3       \* ranks of the cluster whose bring-up must terminate
MaxCoherentCalls == 4 \* calls on the rptr in one run of the coherence specification
MaxThreads == 1       \* Consts::MaxThreads, which sizes the arrays of OOBExchange (scaled down)
MaxShareRc == 2      \* largest num_rc of an establish call with a CQ-sharing policy
MaxClusters == 3     \* Cluster constructions in one process
MaxMatches == 1      \* match_mr_lkey / match_remote_mr_rkey calls in one run

(***************************************************************************)
(* Program constants.                                                      *)
(***************************************************************************)
MaxMrs == 4
CLIENT == 0
SERVER == 1

Hosts(n) == 0 .. (n - 1)
Threads == 1 .. NumThreads
Slots(k) == 0 .. (k - 1)

\* Port attributes the NIC reports for rank r (ibv_query_port / ibv_query_gid).
Lid(r) == r + 1
Gid(r) == r + 101

\* First QP number and first SRQ number the NIC of rank r hands out.
QpnBase(r) == 100 * (r + 1)
SrqnBase(r) == 50 * (r + 1)

\* Keys the NIC assigns to the k-th region registered on rank r (ibv_reg_mr).
NicLkey(r, k) == 1000 * (r + 1) + 2 * k + 1
NicRkey(r, k) == 1000 * (r + 1) + 2 * k + 2

\* An unset array element (memset 0 in OOBExchange, untouched std::array slot).
NoMr == [addr |-> 0, length |-> 0, lkey |-> 0, rkey |-> 0]

\* Regions registered before the cluster is brought up, in registration
\* order: <<addr, size>>; rank r registers the first (r % 2) + 1 of them.
BringupRegions == << <<8, 4>>, <<10, 4>> >>

\* Regions the callers of reg_mr choose from (they overlap), and the
\* <<addr, size>> ranges the callers of the match functions ask for.
MatchRegions == { <<4, 8>>, <<6, 4>> }
MatchQueries == { <<6, 2>>, <<8, 4>>, <<10, 4>> }

\* The buffers the XRC senders and receivers use: <<addr, size>>.
SendBuf == <<8, 2>>
RecvBuf == <<10, 2>>

\* The bytes the sender on XRC end i of rank r puts in its buffer.
Payload(r, i) == 10 * (r + 1) + i

\* num_rc / num_xrc values the callers pass to Cluster::establish.
CountVals == (0 - 1) .. MaxConn
ArgPairs == {a \in CountVals \X CountVals : a[1] + a[2] <= MaxConn}

VARIABLES
    nmrs,           \* Context::nmrs, per rank
    mrs,            \* Context::mrs, per rank: slot -> ibv_mr
    refcnt,         \* Context::refcnt, per rank
    connected,      \* Cluster::connected, per rank
    rcs,            \* Peer::rcs, per rank and peer: slot -> RC end
    xrcs,           \* Peer::xrcs, per rank and peer: slot -> XRC end
    nrmrs,          \* Peer::nrmrs
    remote_mrs,     \* Peer::remote_mrs
    xrc_srq_nums,   \* Peer::xrc_srq_nums
    next_qpn,       \* NIC: QP numbers handed out so far, per rank
    next_srqn,      \* NIC: SRQ numbers handed out so far, per rank
    oob,            \* MPI: records sent and not yet received, oob[src][dst]
    barrier,        \* MPI: number of MPI_Barrier calls entered, per rank
    pc,             \* per rank and thread: where the thread is in establish
    ret,            \* per rank and thread: how the thread's last call ended
    est,            \* per rank: arguments of the call that won the CAS
    runs,           \* per rank and peer: executions of Peer::establish
    qp_log,         \* per rank and peer: ibv_modify_qp calls accepted so far
    sent_mrs,       \* per rank and peer: the MR table the rank put in its record
    up,             \* per rank: the call that brought the cluster up returned
    extra,          \* establish calls so far that did not win the CAS
    faults,         \* verbs calls rejected so far
    posted,         \* reg_mr, post_send and post_recv calls made so far
    matched,        \* the last match_mr_lkey / match_remote_mr_rkey call
    last,           \* the last call of the library and how it ended
    mem,            \* per rank: the 8-byte words of the caller's buffer
    life,           \* per rank: which objects are alive, and what was released
    prog,           \* per rank: where a test program is, and what it observed
    rp,             \* per rank: the caller's rptr object
    hist            \* the operations the NICs have carried out on remote words

vars == <<nmrs, mrs, refcnt, connected, rcs, xrcs, nrmrs, remote_mrs,
          xrc_srq_nums, next_qpn, next_srqn, oob, barrier, pc, ret, est, runs,
          qp_log, sent_mrs, up, extra, faults, posted, matched, last, mem,
          life, prog, rp, hist>>

\* The ranks of the MPI world the program was started in, and the peers of
\* rank r.
Ranks == DOMAIN nmrs
Others(r) == Ranks \ {r}

ctxVars == <<nmrs, mrs>>
peerVars == <<rcs, xrcs, nrmrs, remote_mrs, xrc_srq_nums, qp_log, sent_mrs>>
nicVars == <<next_qpn, next_srqn>>
planeVars == <<posted, matched>>
rcVars == <<last, mem, life, prog, rp, hist>>

Size(f) == Cardinality(DOMAIN f)

(***************************************************************************)
(* Context                                                                 *)
(***************************************************************************)

\* A reg_mr that counts a region the NIC rejected.
RegMrResultCountsRejected(r, n, tab, addr, size, nic_ok) ==
    IF n >= MaxMrs THEN <<0 - 1, n, tab>>
    ELSE IF ~nic_ok THEN <<0 - 1, n + 1, tab>>
    ELSE <<n, n + 1,
           [tab EXCEPT ![n] = [addr |-> addr, length |-> size,
                               lkey |-> NicLkey(r, n), rkey |-> NicRkey(r, n)]]>>

\* Context::reg_mr on a Context of rank r holding n regions in table tab: the
\* outcome <<return value, nmrs, mrs>>.
RegMrResult(r, n, tab, addr, size, nic_ok) ==
    IF n >= MaxMrs THEN <<0 - 1, n, tab>>
    ELSE IF ~nic_ok THEN <<0 - 1, n, tab>>
    ELSE <<n, n + 1,
           [tab EXCEPT ![n] = [addr |-> addr, length |-> size,
                               lkey |-> NicLkey(r, n), rkey |-> NicRkey(r, n)]]>>

\* The Context of rank r after reg_mr on each of the first k regions of regs.
RECURSIVE Registered(_, _, _)
Registered(r, regs, k) ==
    IF k = 0 THEN <<0, 0, [i \in Slots(MaxMrs) |-> NoMr]>>
    ELSE LET c == Registered(r, regs, k - 1)
         IN RegMrResult(r, c[2], c[3], regs[k][1], regs[k][2], TRUE)

\* Emergency::abort was called instead of returning a key.
Aborted == 0 - 1

\* The MR m covers [addr, addr + size) as match_mr_lkey tests it.
Covers(m, addr, size) == addr >= m.addr /\ addr + size <= m.addr + m.length

\* A scan that tries slot 0 first.
ScanUp(tab, k, addr, size) ==
    LET hits == {i \in Slots(k) : Covers(tab[i], addr, size)}
    IN IF k \notin 1 .. MaxMrs \/ hits = {} THEN 0 - 1
       ELSE CHOOSE i \in hits : \A j \in hits : i <= j

\* The switch of match_mr_lkey / match_remote_mr_rkey entered at case k: slot
\* k - 1 is tried first and each case falls through to the one below it; the
\* slot of the MR whose key is returned, or -1 on the default (abort) path.
RECURSIVE ScanDown(_, _, _, _)
ScanDown(tab, k, addr, size) ==
    IF k \notin 1 .. MaxMrs THEN 0 - 1
    ELSE IF Covers(tab[k - 1], addr, size) THEN k - 1
    ELSE ScanDown(tab, k - 1, addr, size)

\* Context::match_mr_lkey
match_mr_lkey(r, addr, size) ==
    LET k == ScanDown(mrs[r], nmrs[r], addr, size)
    IN IF k < 0 THEN Aborted ELSE mrs[r][k].lkey

\* Peer::match_remote_mr_rkey
match_remote_mr_rkey(r, p, addr, size) ==
    LET k == ScanDown(remote_mrs[r][p], nrmrs[r][p], addr, size)
    IN IF k < 0 THEN Aborted ELSE remote_mrs[r][p][k].rkey

\* No match call made yet.
NoMatch == [fn |-> "none", rank |-> 0, peer |-> 0, addr |-> 0, size |-> 0,
            n |-> 0, out |-> 0]

(***************************************************************************)
(* Queue pairs and the verbs state machine                                 *)
(***************************************************************************)

NewQP(qpn) == [qp_num |-> qpn, state |-> "Reset", dest_qp_num |-> 0,
               dlid |-> 0, dgid |-> 0]

\* The state ibv_modify_qp requires for a transition to `to`.
StateBefore(to) ==
    CASE to = "Init" -> "Reset"
      [] to = "RTR" -> "Init"
      [] to = "RTS" -> "RTR"

\* The caller's buffer at rank r: BufLen bytes at BufBase(r), of which the
\* model follows the first 2 * Batch 8-byte words and the word at offset 64.
BufBase(r) == 256 * (r + 1)
WordOffsets == {8 * k : k \in 0 .. (2 * Batch - 1)} \cup {64}
WordAddrs(r) == {BufBase(r) + o : o \in WordOffsets}
OwnerOf(a) == CHOOSE r \in Ranks : a \in WordAddrs(r)

\* No library call has been made yet.
NoCall == [fn |-> "none", rank |-> 0, out |-> 0]

\* Context::Context and Cluster::Cluster have run, no destructor has.
Alive == [cluster |-> TRUE, ctx |-> TRUE, log |-> << >>, constructed |-> 1]

\* A test program before its first statement.
NotStarted == [at |-> "start", seen |-> << >>, i |-> 0, j |-> 0, cur |-> 0]

\* What the last call on an rptr returned: seq is the post it made, a and b
\* its arguments.
RptrRet(fn, out, seq, a, b) ==
    [fn |-> fn, out |-> out, seq |-> seq, a |-> a, b |-> b]

\* No rptr has been constructed.
NoRptr == [peer |-> 0, remote |-> 0, local |-> 0, valid |-> FALSE,
           at |-> "none", seq |-> 0, a |-> 0, b |-> 0, reads |-> 0,
           volatile |-> FALSE, committed |-> << >>,
           ret |-> RptrRet("none", 0, 0, 0, 0)]

\* ReliableConnection::ReliableConnection: the send and receive CQs, then the
\* QP with its send queue completing on send_cq and its receive queue on
\* recv_cq.
NewRC(id, qpn) ==
    [id |-> id, qp |-> NewQP(qpn), sq |-> << >>, rq |-> << >>,
     send_cq |-> << >>, recv_cq |-> << >>,
     send_cq_ptr |-> 2 * id, recv_cq_ptr |-> 2 * id + 1]

\* ExtendedReliableConnection::ExtendedReliableConnection: the send and
\* receive CQs, the SRQ bound to the receive CQ, then the initiator QP (its
\* send queue completing on send_cq) and the target QP.
NewXRC(id, srqn, qpn) ==
    [id |-> id, srq_num |-> srqn, ini_qp |-> NewQP(qpn), tgt_qp |-> NewQP(qpn + 1),
     sq |-> << >>, srq |-> << >>, send_cq |-> << >>, recv_cq |-> << >>]

\* One ibv_modify_qp call: connection kind, slot, which QP, the requested state
\* and the address fields it programs.
Call(conn, id, qp, to, gid, lid, qpn) ==
    [conn |-> conn, id |-> id, qp |-> qp, to |-> to, dgid |-> gid, dlid |-> lid,
     dest_qp_num |-> qpn]

\* An RC bring-up that stops at Ready-to-Receive.
RCEstablishNoRts(id, gid, lid, qpn) ==
    << Call("rc", id, "qp", "Init", 0, 0, 0),
       Call("rc", id, "qp", "RTR", gid, lid, qpn) >>

\* ReliableConnection::establish
RCEstablish(id, gid, lid, qpn) ==
    << Call("rc", id, "qp", "Init", 0, 0, 0),
       Call("rc", id, "qp", "RTR", gid, lid, qpn),
       Call("rc", id, "qp", "RTS", 0, 0, 0) >>

\* ExtendedReliableConnection::modify_to_init
XRCModifyToInit(id) ==
    << Call("xrc", id, "ini", "Init", 0, 0, 0),
       Call("xrc", id, "tgt", "Init", 0, 0, 0) >>

\* ExtendedReliableConnection::modify_to_rts
XRCModifyToRts(id) ==
    << Call("xrc", id, "ini", "RTS", 0, 0, 0),
       Call("xrc", id, "tgt", "RTS", 0, 0, 0) >>

\* An XRC bring-up that wires initiator to initiator and target to target.
XRCEstablishStraight(id, gid, lid, ini_qp_num, tgt_qp_num) ==
    XRCModifyToInit(id)
    \o << Call("xrc", id, "ini", "RTR", gid, lid, ini_qp_num) >>
    \o << Call("xrc", id, "tgt", "RTR", gid, lid, tgt_qp_num) >>
    \o XRCModifyToRts(id)

\* ExtendedReliableConnection::establish
XRCEstablish(id, gid, lid, ini_qp_num, tgt_qp_num) ==
    XRCModifyToInit(id)
    \o << Call("xrc", id, "ini", "RTR", gid, lid, tgt_qp_num) >>
    \o << Call("xrc", id, "tgt", "RTR", gid, lid, ini_qp_num) >>
    \o XRCModifyToRts(id)

\* An ibv_modify_qp that leaves the QP in Ready-to-Send whatever was asked.
ModifyQPToRts(qp, c) == [qp EXCEPT !.state = "RTS"]

\* ibv_modify_qp on one QP: the QP after an accepted call.
ModifyQP(qp, c) ==
    IF c.to = "RTR"
    THEN [qp EXCEPT !.state = "RTR", !.dest_qp_num = c.dest_qp_num,
                    !.dlid = c.dlid, !.dgid = c.dgid]
    ELSE [qp EXCEPT !.state = c.to]

\* The QP a call addresses, in the connections <<rcs, xrcs>> of one peer.
CallQP(conns, c) ==
    IF c.conn = "rc" THEN conns[1][c.id].qp
    ELSE IF c.qp = "ini" THEN conns[2][c.id].ini_qp
    ELSE conns[2][c.id].tgt_qp

\* The verbs layer accepts a transition only from the state before it.
Accepted(conns, c) == CallQP(conns, c).state = StateBefore(c.to)

ApplyCall(conns, c) ==
    IF c.conn = "rc"
    THEN << [conns[1] EXCEPT ![c.id].qp = ModifyQP(@, c)], conns[2] >>
    ELSE IF c.qp = "ini"
    THEN << conns[1], [conns[2] EXCEPT ![c.id].ini_qp = ModifyQP(@, c)] >>
    ELSE << conns[1], [conns[2] EXCEPT ![c.id].tgt_qp = ModifyQP(@, c)] >>

\* Run the calls in order until one is rejected (the `fail`-th, or one the
\* state machine refuses): <<rcs, xrcs, accepted calls, all accepted>>.
RECURSIVE RunCalls(_, _, _, _)
RunCalls(conns, calls, fail, done) ==
    IF calls = << >> THEN << conns[1], conns[2], done, TRUE >>
    ELSE IF fail = Len(done) + 1 \/ ~Accepted(conns, Head(calls))
    THEN << conns[1], conns[2], done, FALSE >>
    ELSE RunCalls(ApplyCall(conns, Head(calls)), Tail(calls), fail,
                  Append(done, Head(calls)))

(***************************************************************************)
(* Out-of-band exchange record                                             *)
(***************************************************************************)

\* OOBExchange::OOBExchange: every field zero.
EmptyXchg ==
    [gid |-> 0, lid |-> 0, num_mr |-> 0, mr |-> [i \in Slots(MaxMrs) |-> NoMr],
     num_rc |-> 0, rc_qp_num |-> << >>, num_xrc |-> 0, xrc_ini_qp_num |-> << >>,
     xrc_tgt_qp_num |-> << >>, xrc_srq_num |-> << >>]

\* An element of one of the record's arrays: zero where nothing was written.
XchgAt(arr, i) == IF i \in DOMAIN arr THEN arr[i] ELSE 0

\* A fill_exchange that writes every RC QP number into entry 0.
RCFillExchangeFirst(xchg, rc) ==
    [xchg EXCEPT !.rc_qp_num = (0 :> rc.qp.qp_num) @@ @]

\* ReliableConnection::fill_exchange
RCFillExchange(xchg, rc) ==
    [xchg EXCEPT !.rc_qp_num = (rc.id :> rc.qp.qp_num) @@ @]

\* ExtendedReliableConnection::fill_exchange
XRCFillExchange(xchg, xrc) ==
    [xchg EXCEPT !.xrc_ini_qp_num = (xrc.id :> xrc.ini_qp.qp_num) @@ @,
                 !.xrc_tgt_qp_num = (xrc.id :> xrc.tgt_qp.qp_num) @@ @,
                 !.xrc_srq_num = (xrc.id :> xrc.srq_num) @@ @]

RECURSIVE FillRCs(_, _, _)
FillRCs(xchg, conns, i) ==
    IF i >= Size(conns) THEN xchg
    ELSE FillRCs(RCFillExchange(xchg, conns[i]), conns, i + 1)

RECURSIVE FillXRCs(_, _, _)
FillXRCs(xchg, conns, i) ==
    IF i >= Size(conns) THEN xchg
    ELSE FillXRCs(XRCFillExchange(xchg, conns[i]), conns, i + 1)

\* Peer::establish, the record a rank builds for one peer.
LocalXchg(r, new_rcs, new_xrcs) ==
    LET base == [EmptyXchg EXCEPT
                    !.gid = Gid(r), !.lid = Lid(r), !.num_mr = nmrs[r],
                    !.mr = [i \in Slots(MaxMrs) |->
                               IF i < nmrs[r] THEN mrs[r][i] ELSE NoMr],
                    !.num_rc = Size(new_rcs), !.num_xrc = Size(new_xrcs)]
    IN FillXRCs(FillRCs(base, new_rcs, 0), new_xrcs, 0)

\* Peer::establish, the ibv_modify_qp calls of its last two loops.
RECURSIVE ConnectRCs(_, _, _)
ConnectRCs(remote, num_rc, i) ==
    IF i >= num_rc THEN << >>
    ELSE RCEstablish(i, remote.gid, remote.lid, XchgAt(remote.rc_qp_num, i))
         \o ConnectRCs(remote, num_rc, i + 1)

RECURSIVE ConnectXRCs(_, _, _)
ConnectXRCs(remote, num_xrc, i) ==
    IF i >= num_xrc THEN << >>
    ELSE XRCEstablish(i, remote.gid, remote.lid,
                      XchgAt(remote.xrc_ini_qp_num, i),
                      XchgAt(remote.xrc_tgt_qp_num, i))
         \o ConnectXRCs(remote, num_xrc, i + 1)

\* Peer::establish, the remote MR table it stores.
StoreRemoteMrs(old, remote) ==
    [i \in Slots(MaxMrs) |-> IF i < remote.num_mr THEN remote.mr[i] ELSE old[i]]

\* Peer::establish, the remote SRQ numbers it stores.
StoreSrqNums(remote, num_xrc) ==
    [i \in Slots(num_xrc) |-> XchgAt(remote.xrc_srq_num, i)]

(***************************************************************************)
(* Cluster::establish, with the Peer::establish calls it makes             *)
(***************************************************************************)

Idle == [at |-> "idle", num_rc |-> 0, num_xrc |-> 0, i |-> 0]
\* How a call ended, with its arguments and whether the bring-up call had
\* returned on the rank when it was made.
Ret(kind, num_rc, num_xrc, late) ==
    [kind |-> kind, num_rc |-> num_rc, num_xrc |-> num_xrc, late |-> late]

\* A validity check that lets establish(0, 0) through.
ValidCountsNonNegative(num_rc, num_xrc) == ~(num_rc < 0 \/ num_xrc < 0)

\* A validity check that lets every pair of counts through.
ValidCountsAny(num_rc, num_xrc) == TRUE

\* The validity check at the head of Cluster::establish.
ValidCounts(num_rc, num_xrc) ==
    ~(num_rc < 0 \/ num_xrc < 0 \/ (num_rc = 0 /\ num_xrc = 0))

\* A compare-and-swap that lets every caller through.
CasAlwaysWins(r) == TRUE

\* connected.compare_exchange_strong(false, true) succeeds.
CasWins(r) == connected[r] = FALSE

\* The next index of the peer loop at or after i (the loop skips this->id).
NextPeer(r, i) == IF i = r THEN i + 1 ELSE i

\* A barrier no rank waits in.
BarrierNoWait(r) == TRUE

\* MPI_Barrier returns on rank r once every rank has entered as many barriers.
BarrierOpen(r) == \A q \in Ranks : barrier[q] >= barrier[r]

\* The call up to the first MPI_Barrier.
Establish(r, t, num_rc, num_xrc) ==
    /\ pc[r][t].at = "idle"
    /\ IF ~ValidCounts(num_rc, num_xrc)
       THEN /\ ret' = [ret EXCEPT ![r][t] = Ret("abort", num_rc, num_xrc, up[r])]
            /\ extra' = extra + 1
            /\ UNCHANGED <<connected, barrier, pc, est>>
       ELSE IF ~CasWins(r)
       THEN /\ ret' = [ret EXCEPT ![r][t] = Ret("noop", num_rc, num_xrc, up[r])]
            /\ extra' = extra + 1
            /\ UNCHANGED <<connected, barrier, pc, est>>
       ELSE /\ connected' = [connected EXCEPT ![r] = TRUE]
            /\ barrier' = [barrier EXCEPT ![r] = @ + 1]
            /\ pc' = [pc EXCEPT ![r][t] =
                         [at |-> "barrier1", num_rc |-> num_rc,
                          num_xrc |-> num_xrc, i |-> 0]]
            /\ est' = [est EXCEPT ![r] = <<num_rc, num_xrc>>]
            /\ UNCHANGED <<ret, extra>>
    /\ UNCHANGED <<ctxVars, planeVars, rcVars, refcnt, peerVars, nicVars, oob, runs, up, faults>>

\* After peer loop index j: the next Peer::establish, or the closing barrier.
LoopFrom(r, t, j) ==
    IF NextPeer(r, j) < Cardinality(Ranks)
    THEN /\ pc' = [pc EXCEPT ![r][t].at = "peer", ![r][t].i = NextPeer(r, j)]
         /\ UNCHANGED barrier
    ELSE /\ pc' = [pc EXCEPT ![r][t].at = "barrier2", ![r][t].i = NextPeer(r, j)]
         /\ barrier' = [barrier EXCEPT ![r] = @ + 1]

\* The opening MPI_Barrier returns.
OpeningBarrier(r, t) ==
    /\ pc[r][t].at = "barrier1"
    /\ BarrierOpen(r)
    /\ LoopFrom(r, t, 0)
    /\ UNCHANGED <<ctxVars, planeVars, rcVars, refcnt, connected, peerVars, nicVars, oob, ret, est,
                   runs, up, extra, faults>>

\* Peer::establish up to the send half of MPI_Sendrecv.
PeerEstablishSend(r, t) ==
    /\ pc[r][t].at = "peer"
    /\ LET p == pc[r][t].i
           num_rc == pc[r][t].num_rc
           num_xrc == pc[r][t].num_xrc
           new_rcs == [i \in Slots(num_rc) |-> NewRC(i, next_qpn[r] + i)]
           new_xrcs == [i \in Slots(num_xrc) |->
                           NewXRC(i, next_srqn[r] + i,
                                  next_qpn[r] + num_rc + 2 * i)]
           xchg == LocalXchg(r, new_rcs, new_xrcs)
       IN /\ rcs' = [rcs EXCEPT ![r][p] = new_rcs]
          /\ xrcs' = [xrcs EXCEPT ![r][p] = new_xrcs]
          /\ next_qpn' = [next_qpn EXCEPT ![r] = @ + num_rc + 2 * num_xrc]
          /\ next_srqn' = [next_srqn EXCEPT ![r] = @ + num_xrc]
          /\ refcnt' = [refcnt EXCEPT ![r] = @ + num_rc + num_xrc]
          /\ oob' = [oob EXCEPT ![r][p] = Append(@, xchg)]
          /\ runs' = [runs EXCEPT ![r][p] = @ + 1]
          /\ sent_mrs' = [sent_mrs EXCEPT ![r][p] =
                             [i \in Slots(nmrs[r]) |-> mrs[r][i]]]
          /\ qp_log' = [qp_log EXCEPT ![r][p] = << >>]
    /\ pc' = [pc EXCEPT ![r][t].at = "xchg"]
    /\ UNCHANGED <<ctxVars, planeVars, rcVars, connected, nrmrs, remote_mrs, xrc_srq_nums, barrier,
                   ret, est, up, extra, faults>>

\* Peer::establish from the receive half of MPI_Sendrecv on; `fail` names the
\* ibv_modify_qp call the NIC rejects (0 for none).
PeerEstablishRecv(r, t, fail) ==
    /\ pc[r][t].at = "xchg"
    /\ LET p == pc[r][t].i
           num_rc == pc[r][t].num_rc
           num_xrc == pc[r][t].num_xrc
       IN /\ oob[p][r] # << >>
          /\ LET remote == Head(oob[p][r])
                 calls == ConnectRCs(remote, num_rc, 0)
                          \o ConnectXRCs(remote, num_xrc, 0)
                 out == RunCalls(<<rcs[r][p], xrcs[r][p]>>, calls, fail, << >>)
             IN /\ fail \in 0 .. Len(calls)
                /\ fail # 0 => faults < MaxFaults
                /\ faults' = IF fail # 0 THEN faults + 1 ELSE faults
                /\ oob' = [oob EXCEPT ![p][r] = Tail(@)]
                /\ nrmrs' = [nrmrs EXCEPT ![r][p] = remote.num_mr]
                /\ remote_mrs' = [remote_mrs EXCEPT ![r][p] =
                                     StoreRemoteMrs(@, remote)]
                /\ xrc_srq_nums' = [xrc_srq_nums EXCEPT ![r][p] =
                                       StoreSrqNums(remote, num_xrc)]
                /\ rcs' = [rcs EXCEPT ![r][p] = out[1]]
                /\ xrcs' = [xrcs EXCEPT ![r][p] = out[2]]
                /\ qp_log' = [qp_log EXCEPT ![r][p] = out[3]]
                /\ IF out[4]
                   THEN /\ LoopFrom(r, t, p + 1)
                        /\ UNCHANGED ret
                   ELSE /\ pc' = [pc EXCEPT ![r][t] = Idle]
                        /\ ret' = [ret EXCEPT ![r][t] =
                                      Ret("abort", num_rc, num_xrc, FALSE)]
                        /\ UNCHANGED barrier
    /\ UNCHANGED <<ctxVars, planeVars, rcVars, refcnt, connected, nicVars, est, runs, sent_mrs, up,
                   extra>>

\* The closing MPI_Barrier returns, and with it the call.
ClosingBarrier(r, t) ==
    /\ pc[r][t].at = "barrier2"
    /\ BarrierOpen(r)
    /\ pc' = [pc EXCEPT ![r][t] = Idle]
    /\ ret' = [ret EXCEPT ![r][t] =
                  Ret("bringup", pc[r][t].num_rc, pc[r][t].num_xrc, FALSE)]
    /\ up' = [up EXCEPT ![r] = TRUE]
    /\ UNCHANGED <<ctxVars, planeVars, rcVars, refcnt, connected, peerVars, nicVars, oob, barrier,
                   est, runs, extra, faults>>

(***************************************************************************)
(* Memory registration and key matching                                    *)
(***************************************************************************)

\* Context::reg_mr
RegMr(r, addr, size, nic_ok) ==
    /\ life[r].ctx
    /\ LET out == RegMrResult(r, nmrs[r], mrs[r], addr, size, nic_ok)
       IN /\ nmrs' = [nmrs EXCEPT ![r] = out[2]]
          /\ mrs' = [mrs EXCEPT ![r] = out[3]]
          /\ last' = [fn |-> "reg_mr", rank |-> r, out |-> out[1],
                      addr |-> addr, size |-> size, nic_ok |-> nic_ok]
          /\ posted' = [posted EXCEPT !.reg = @ + 1,
                                      !.regd[r] = IF out[1] >= 0 THEN @ + 1 ELSE @]
    /\ UNCHANGED <<mem, life, prog, rp, hist, refcnt, connected, peerVars, nicVars,
                   oob, barrier, pc, ret, est, runs, up, extra, faults, matched>>

\* A caller of Context::match_mr_lkey, as the post_* methods are.
MatchMrLkey(r, addr, size) ==
    /\ posted.match < MaxMatches
    /\ posted' = [posted EXCEPT !.match = @ + 1]
    /\ matched' = [fn |-> "lkey", rank |-> r, peer |-> r, addr |-> addr,
                   size |-> size, n |-> nmrs[r],
                   out |-> match_mr_lkey(r, addr, size)]
    /\ UNCHANGED <<ctxVars, rcVars, refcnt, connected, peerVars, nicVars, oob, barrier,
                   pc, ret, est, runs, up, extra, faults>>

\* A caller of Peer::match_remote_mr_rkey, as the one-sided post_* methods are.
MatchRemoteMrRkey(r, p, addr, size) ==
    /\ posted.match < MaxMatches
    /\ posted' = [posted EXCEPT !.match = @ + 1]
    /\ matched' = [fn |-> "rkey", rank |-> r, peer |-> p, addr |-> addr,
                   size |-> size, n |-> nrmrs[r][p],
                   out |-> match_remote_mr_rkey(r, p, addr, size)]
    /\ UNCHANGED <<ctxVars, rcVars, refcnt, connected, peerVars, nicVars, oob, barrier,
                   pc, ret, est, runs, up, extra, faults>>

(***************************************************************************)
(* XRC data plane                                                          *)
(***************************************************************************)

\* The XRC ends of rank p: <<peer, slot>>.
XrcEnds(p) == UNION {{<<q, j>> : j \in DOMAIN xrcs[p][q]} : q \in Others(p)}

\* What post_send reads from peer->xrc_srq_nums[remote_id]: the stored number,
\* or, past the end of the vector, any value (0, or a number that happens to
\* name an SRQ of the remote node).
SrqNumRead(r, p, remote_id) ==
    IF remote_id \in DOMAIN xrc_srq_nums[r][p]
    THEN {xrc_srq_nums[r][p][remote_id]}
    ELSE {0} \cup {xrcs[p][e[1]][e[2]].srq_num : e \in XrcEnds(p)}

\* ExtendedReliableConnection::post_send on XRC end i of rank r towards p
\* (a signaled SEND of SendBuf): one work request on the initiator QP.
XrcPostSend(r, p, i, remote_id) ==
    /\ up[r]
    /\ posted.send < MaxSends
    /\ i \in DOMAIN xrcs[r][p]
    /\ xrcs[r][p][i].ini_qp.state = "RTS"
    /\ match_mr_lkey(r, SendBuf[1], SendBuf[2]) # Aborted
    /\ \E srqn \in SrqNumRead(r, p, remote_id) :
          xrcs' = [xrcs EXCEPT ![r][p][i].sq = Append(@,
                      [wr_id |-> posted.send + 1,
                       lkey |-> match_mr_lkey(r, SendBuf[1], SendBuf[2]),
                       data |-> Payload(r, i),
                       xrc_remote_srq_num |-> srqn,
                       remote_id |-> remote_id])]
    /\ posted' = [posted EXCEPT !.send = @ + 1]
    /\ UNCHANGED <<ctxVars, rcVars, refcnt, connected, rcs, nrmrs, remote_mrs,
                   xrc_srq_nums, qp_log, sent_mrs, nicVars, oob, barrier, pc,
                   ret, est, runs, up, extra, faults, matched>>

\* ExtendedReliableConnection::post_recv on XRC end i of rank r for peer p:
\* one receive of RecvBuf on the end's SRQ.
XrcPostRecv(r, p, i) ==
    /\ up[r]
    /\ posted.recv < MaxRecvs
    /\ i \in DOMAIN xrcs[r][p]
    /\ match_mr_lkey(r, RecvBuf[1], RecvBuf[2]) # Aborted
    /\ xrcs' = [xrcs EXCEPT ![r][p][i].srq = Append(@,
                   [wr_id |-> posted.recv + 1,
                    lkey |-> match_mr_lkey(r, RecvBuf[1], RecvBuf[2])])]
    /\ posted' = [posted EXCEPT !.recv = @ + 1]
    /\ UNCHANGED <<ctxVars, rcVars, refcnt, connected, rcs, nrmrs, remote_mrs,
                   xrc_srq_nums, qp_log, sent_mrs, nicVars, oob, barrier, pc,
                   ret, est, runs, up, extra, faults, matched>>

\* A send completion on the send CQ of an XRC end whose work request failed.
SendFailed(x, status) ==
    [x EXCEPT !.sq = Tail(@), !.ini_qp.state = "Error",
              !.send_cq = Append(@, [wr_id |-> Head(x.sq).wr_id,
                                     status |-> status])]

\* The NICs carry out the oldest work request of the initiator QP of XRC end
\* i of rank r towards p. The request goes to the QP the initiator names; the
\* receiving NIC hands it to the SRQ the request names, whose oldest receive
\* it consumes (with rnr_retry = 7 the sender retries until there is one).
NicExecute(r, p, i) ==
    /\ i \in DOMAIN xrcs[r][p]
    /\ xrcs[r][p][i].sq # << >>
    /\ LET x == xrcs[r][p][i]
           wr == Head(x.sq)
           tgts == {e \in XrcEnds(p) :
                       /\ xrcs[p][e[1]][e[2]].tgt_qp.qp_num = x.ini_qp.dest_qp_num
                       /\ xrcs[p][e[1]][e[2]].tgt_qp.state \in {"RTR", "RTS"}}
           srqs == {e \in XrcEnds(p) :
                       xrcs[p][e[1]][e[2]].srq_num = wr.xrc_remote_srq_num}
       IN IF x.ini_qp.state = "Error"
          THEN xrcs' = [xrcs EXCEPT ![r][p][i] = SendFailed(x, "WrFlushErr")]
          ELSE IF tgts = {}
          THEN xrcs' = [xrcs EXCEPT ![r][p][i] = SendFailed(x, "RetryExcErr")]
          ELSE IF srqs = {}
          THEN xrcs' = [xrcs EXCEPT ![r][p][i] = SendFailed(x, "RemInvReqErr")]
          ELSE \E e \in srqs :
                  LET y == xrcs[p][e[1]][e[2]]
                  IN /\ y.srq # << >>
                     /\ xrcs' = [xrcs EXCEPT
                           ![r][p][i] =
                               [x EXCEPT !.sq = Tail(@),
                                         !.send_cq = Append(@,
                                             [wr_id |-> wr.wr_id,
                                              status |-> "Success"])],
                           ![p][e[1]][e[2]] =
                               [y EXCEPT !.srq = Tail(@),
                                         !.recv_cq = Append(@,
                                             [wr_id |-> Head(y.srq).wr_id,
                                              status |-> "Success",
                                              data |-> wr.data,
                                              src |-> <<r, i>>,
                                              src_wr_id |-> wr.wr_id,
                                              remote_id |-> wr.remote_id])]]
    /\ UNCHANGED <<ctxVars, rcVars, refcnt, connected, rcs, nrmrs, remote_mrs,
                   xrc_srq_nums, qp_log, sent_mrs, nicVars, oob, barrier, pc,
                   ret, est, runs, up, extra, faults, planeVars>>

(***************************************************************************)
(* Specification of the bring-up                                           *)
(***************************************************************************)

\* The state after every rank has constructed its Context, registered the
\* regions of regd[r] and constructed its Cluster.
InitFrom(regd) ==
    /\ nmrs = [r \in DOMAIN regd |-> regd[r][2]]
    /\ mrs = [r \in DOMAIN regd |-> regd[r][3]]
    /\ refcnt = [r \in DOMAIN regd |-> Cardinality(DOMAIN regd)]
    /\ connected = [r \in DOMAIN regd |-> FALSE]
    /\ rcs = [r \in DOMAIN regd |-> [p \in DOMAIN regd \ {r} |-> << >>]]
    /\ xrcs = [r \in DOMAIN regd |-> [p \in DOMAIN regd \ {r} |-> << >>]]
    /\ nrmrs = [r \in DOMAIN regd |-> [p \in DOMAIN regd \ {r} |-> 0]]
    /\ remote_mrs = [r \in DOMAIN regd |-> [p \in DOMAIN regd \ {r} |->
                        [i \in Slots(MaxMrs) |-> NoMr]]]
    /\ xrc_srq_nums = [r \in DOMAIN regd |-> [p \in DOMAIN regd \ {r} |-> << >>]]
    /\ next_qpn = [r \in DOMAIN regd |-> QpnBase(r)]
    /\ next_srqn = [r \in DOMAIN regd |-> SrqnBase(r)]
    /\ oob = [r \in DOMAIN regd |-> [p \in DOMAIN regd \ {r} |-> << >>]]
    /\ barrier = [r \in DOMAIN regd |-> 0]
    /\ pc = [r \in DOMAIN regd |-> [t \in Threads |-> Idle]]
    /\ ret = [r \in DOMAIN regd |-> [t \in Threads |-> Ret("none", 0, 0, FALSE)]]
    /\ est = [r \in DOMAIN regd |-> <<0, 0>>]
    /\ runs = [r \in DOMAIN regd |-> [p \in DOMAIN regd \ {r} |-> 0]]
    /\ qp_log = [r \in DOMAIN regd |-> [p \in DOMAIN regd \ {r} |-> << >>]]
    /\ sent_mrs = [r \in DOMAIN regd |-> [p \in DOMAIN regd \ {r} |-> << >>]]
    /\ up = [r \in DOMAIN regd |-> FALSE]
    /\ extra = 0
    /\ faults = 0
    /\ posted = [reg |-> 0, regd |-> [r \in DOMAIN regd |-> 0], send |-> 0,
                 recv |-> 0, match |-> 0, rc |-> 0]
    /\ matched = NoMatch
    /\ last = NoCall
    /\ mem = [r \in DOMAIN regd |-> [a \in WordAddrs(r) |-> 0]]
    /\ life = [r \in DOMAIN regd |-> Alive]
    /\ prog = [r \in DOMAIN regd |-> NotStarted]
    /\ rp = [r \in DOMAIN regd |-> NoRptr]
    /\ hist = << >>

Init == InitFrom([r \in Hosts(NumRanks) |-> Registered(r, BringupRegions, (r % 2) + 1)])

\* Every rank's threads call establish with any counts; the NIC accepts every
\* transition.
Next ==
    \/ \E r \in Ranks, t \in Threads, a \in ArgPairs :
          /\ (ValidCounts(a[1], a[2]) /\ CasWins(r)) \/ extra < MaxExtra
          /\ Establish(r, t, a[1], a[2])
    \/ \E r \in Ranks, t \in Threads : OpeningBarrier(r, t)
    \/ \E r \in Ranks, t \in Threads : PeerEstablishSend(r, t)
    \/ \E r \in Ranks, t \in Threads : PeerEstablishRecv(r, t, 0)
    \/ \E r \in Ranks, t \in Threads : ClosingBarrier(r, t)

Spec == Init /\ [][Next]_vars

\* One thread per rank calls establish once with valid counts; the NIC may
\* reject ibv_modify_qp calls.
NextFaults ==
    \/ \E r \in Ranks, a \in ArgPairs :
          /\ ValidCounts(a[1], a[2]) /\ CasWins(r)
          /\ Establish(r, 1, a[1], a[2])
    \/ \E r \in Ranks : OpeningBarrier(r, 1)
    \/ \E r \in Ranks : PeerEstablishSend(r, 1)
    \/ \E r \in Ranks, fail \in 0 .. (6 * MaxConn) : PeerEstablishRecv(r, 1, fail)
    \/ \E r \in Ranks : ClosingBarrier(r, 1)

SpecFaults == Init /\ [][NextFaults]_vars

\* Contexts start empty; callers register overlapping regions, one thread per
\* rank brings the cluster up with one RC end per peer, and callers match
\* address ranges against the local and the remote tables at any time.
InitMatch ==
    InitFrom([r \in Hosts(NumRanks) |-> Registered(r, BringupRegions, 0)])

NextMatch ==
    \/ \E r \in Ranks, g \in MatchRegions :
          posted.reg < MaxRegs /\ RegMr(r, g[1], g[2], TRUE)
    \/ \E r \in Ranks, q \in MatchQueries : MatchMrLkey(r, q[1], q[2])
    \/ \E r \in Ranks, q \in MatchQueries :
          \E p \in Others(r) : MatchRemoteMrRkey(r, p, q[1], q[2])
    \/ \E r \in Ranks : CasWins(r) /\ Establish(r, 1, 1, 0)
    \/ \E r \in Ranks : OpeningBarrier(r, 1)
    \/ \E r \in Ranks : PeerEstablishSend(r, 1)
    \/ \E r \in Ranks : PeerEstablishRecv(r, 1, 0)
    \/ \E r \in Ranks : ClosingBarrier(r, 1)

SpecMatch == InitMatch /\ [][NextMatch]_vars

\* Contexts start empty; callers register regions, which the NIC accepts or
\* rejects, until and beyond the point where a table is full.
NextReg ==
    \E r \in Ranks, g \in MatchRegions, nic_ok \in BOOLEAN :
        posted.reg < MaxRegCalls /\ RegMr(r, g[1], g[2], nic_ok)

SpecReg == InitMatch /\ [][NextReg]_vars

\* One thread per rank brings the cluster up with XRC ends only; afterwards
\* the ends post SENDs and receives and the NICs carry them out in any order.
NextXrc ==
    \/ \E r \in Ranks, n \in 1 .. MaxConn :
          CasWins(r) /\ Establish(r, 1, 0, n)
    \/ \E r \in Ranks : OpeningBarrier(r, 1)
    \/ \E r \in Ranks : PeerEstablishSend(r, 1)
    \/ \E r \in Ranks : PeerEstablishRecv(r, 1, 0)
    \/ \E r \in Ranks : ClosingBarrier(r, 1)
    \/ \E r \in Ranks : \E p \in Others(r) :
          \E i \in Slots(MaxConn), remote_id \in DOMAIN xrcs[p][r] :
              XrcPostSend(r, p, i, remote_id)
    \/ \E r \in Ranks : \E p \in Others(r) :
          \E i \in Slots(MaxConn) : XrcPostRecv(r, p, i)
    \/ \E r \in Ranks : \E p \in Others(r) :
          \E i \in Slots(MaxConn) : NicExecute(r, p, i)

SpecXrc == Init /\ [][NextXrc]_vars

(***************************************************************************)
(* Destructors                                                             *)
(***************************************************************************)

\* A teardown in which only the Peers drop their reference, the RC and XRC
\* ends of a Peer keeping theirs.
DependentsPeersOnly(r) == Cardinality(Others(r))

\* The objects of rank r that hold a reference on its Context besides the
\* Cluster: one per Peer, one per RC end and one per XRC end.
Dependents(r) ==
    LET RECURSIVE Ends(_)
        Ends(ps) == IF ps = {} THEN 0
                    ELSE LET p == CHOOSE q \in ps : TRUE
                         IN Size(rcs[r][p]) + Size(xrcs[r][p]) + Ends(ps \ {p})
    IN Cardinality(Others(r)) + Ends(Others(r))

\* Cluster::~Cluster: every Peer is deleted, which deletes its RC and XRC ends,
\* and each of them, and the Cluster itself, drops its reference.
DestroyCluster(r) ==
    /\ life[r].cluster
    /\ life[r].ctx
    /\ \A t \in Threads : pc[r][t] = Idle
    /\ refcnt' = [refcnt EXCEPT ![r] = @ - Dependents(r) - 1]
    /\ rcs' = [rcs EXCEPT ![r] = [p \in Others(r) |-> << >>]]
    /\ xrcs' = [xrcs EXCEPT ![r] = [p \in Others(r) |-> << >>]]
    /\ life' = [life EXCEPT ![r].cluster = FALSE]
    /\ last' = [fn |-> "~Cluster", rank |-> r, out |-> 0]
    /\ UNCHANGED <<ctxVars, planeVars, mem, prog, rp, hist, connected, nrmrs,
                   remote_mrs, xrc_srq_nums, qp_log, sent_mrs, nicVars, oob,
                   barrier, pc, ret, est, runs, up, extra, faults>>

\* One call of the verbs library that gives a resource back.
Release(op, arg) == [op |-> op, arg |-> arg]

\* A destructor that gives the protection domain back before the XRC domain.
ContextReleasesPdFirst(r) ==
    [i \in 1 .. nmrs[r] |-> Release("ibv_dereg_mr", mrs[r][i - 1].lkey)]
        \o <<Release("ibv_dealloc_pd", 0), Release("ibv_close_xrcd", 0),
             Release("ibv_close_device", 0)>>

\* What Context::~Context releases when nothing depends on the Context.
ContextReleases(r) ==
    [i \in 1 .. nmrs[r] |-> Release("ibv_dereg_mr", mrs[r][i - 1].lkey)]
        \o <<Release("ibv_close_xrcd", 0), Release("ibv_dealloc_pd", 0),
             Release("ibv_close_device", 0)>>

\* Context::~Context
DestroyContext(r) ==
    /\ life[r].ctx
    /\ \A t \in Threads : pc[r][t] = Idle
    /\ life' = [life EXCEPT ![r].ctx = FALSE,
                            ![r].log = IF refcnt[r] > 0 THEN @
                                       ELSE @ \o ContextReleases(r)]
    /\ last' = [fn |-> "~Context", rank |-> r, out |-> refcnt[r]]
    /\ UNCHANGED <<ctxVars, planeVars, mem, prog, rp, hist, refcnt, connected,
                   peerVars, nicVars, oob, barrier, pc, ret, est, runs, up,
                   extra, faults>>

\* One thread per rank brings the cluster up with RC and XRC ends; a rank
\* whose thread is outside establish destroys its Cluster and its Context, in
\* either order, at any time.
NextTeardown ==
    \/ \E r \in Ranks, a \in {<<1, 0>>, <<1, 1>>, <<MaxConn, 0>>} :
          /\ life[r].cluster /\ life[r].ctx
          /\ CasWins(r)
          /\ Establish(r, 1, a[1], a[2])
    \/ \E r \in Ranks : OpeningBarrier(r, 1)
    \/ \E r \in Ranks : PeerEstablishSend(r, 1)
    \/ \E r \in Ranks : PeerEstablishRecv(r, 1, 0)
    \/ \E r \in Ranks : ClosingBarrier(r, 1)
    \/ \E r \in Ranks : DestroyCluster(r)
    \/ \E r \in Ranks : DestroyContext(r)

SpecTeardown == Init /\ [][NextTeardown]_vars

\* Cluster::Cluster(ctx), once more in a process that has constructed one
\* already: the size and the rank are read, the Context is referenced and a
\* Peer, which references the Context too, is made for every other rank.
\* (constructed counts the constructions that returned.)
NewCluster(r) ==
    /\ life[r].ctx
    /\ life[r].constructed < MaxClusters
    /\ \A t \in Threads : pc[r][t] = Idle
    /\ refcnt' = [refcnt EXCEPT ![r] = @ + 1 + Cardinality(Others(r))]
    /\ life' = [life EXCEPT ![r].constructed = @ + 1]
    /\ last' = [fn |-> "Cluster", rank |-> r, out |-> 0]
    /\ UNCHANGED <<ctxVars, planeVars, mem, prog, rp, hist, connected, rcs,
                   xrcs, nrmrs, remote_mrs, xrc_srq_nums, qp_log, sent_mrs,
                   nicVars, oob, barrier, pc, ret, est, runs, up, extra,
                   faults>>

\* One thread per rank brings the cluster up; a rank whose thread is outside
\* establish constructs further Clusters on its Context, and destroys the
\* first.
NextCluster ==
    \/ \E r \in Ranks :
          life[r].cluster /\ CasWins(r) /\ Establish(r, 1, 1, 0)
    \/ \E r \in Ranks : OpeningBarrier(r, 1)
    \/ \E r \in Ranks : PeerEstablishSend(r, 1)
    \/ \E r \in Ranks : PeerEstablishRecv(r, 1, 0)
    \/ \E r \in Ranks : ClosingBarrier(r, 1)
    \/ \E r \in Ranks : NewCluster(r)
    \/ \E r \in Ranks : DestroyCluster(r)

SpecCluster == Init /\ [][NextCluster]_vars

(***************************************************************************)
(* RC data plane                                                           *)
(***************************************************************************)

\* Words are WordBits wide; Bit(x, i) is bit i of x.
WordMod == 2 ^ WordBits
Bit(x, i) == (x \div (2 ^ i)) % 2

\* x & y on words.
RECURSIVE BitAndFrom(_, _, _)
BitAndFrom(x, y, i) ==
    IF i = WordBits THEN 0
    ELSE Bit(x, i) * Bit(y, i) * (2 ^ i) + BitAndFrom(x, y, i + 1)
BitAnd(x, y) == BitAndFrom(x, y, 0)

\* ~x on words.
BitNot(x) == (WordMod - 1) - (x % WordMod)

\* The masked fetch-and-add of the NIC: an addition in which a set bit of
\* boundary marks the most significant bit of a field, whose carry is dropped.
RECURSIVE MaskedAddFrom(_, _, _, _, _)
MaskedAddFrom(old, add, boundary, i, carry) ==
    IF i = WordBits THEN 0
    ELSE LET sum == Bit(old, i) + Bit(add, i) + carry
         IN (sum % 2) * (2 ^ i)
            + MaskedAddFrom(old, add, boundary, i + 1,
                            IF Bit(boundary, i) = 1 THEN 0 ELSE sum \div 2)
MaskedAdd(old, add, boundary) == MaskedAddFrom(old, add, boundary, 0, 0)

\* The masked compare-and-swap of the NIC: whether the compared bits agree,
\* and the word with the swapped bits replaced.
MaskedEqual(old, compare, compare_mask) ==
    BitAnd(old, compare_mask) = BitAnd(compare, compare_mask)
MaskedSwap(old, swap, swap_mask) ==
    BitAnd(old, BitNot(swap_mask)) + BitAnd(swap, swap_mask)

\* Reads and writes of the words the model follows.
Load(r, a) == IF a \in DOMAIN mem[r] THEN mem[r][a] ELSE 0
Stored(m, r, a, v) == IF a \in DOMAIN m[r] THEN [m EXCEPT ![r][a] = v] ELSE m

\* A work request as the post_* methods fill it in; a and b hold the operands
\* of an atomic (compare_add and swap, or add_val and field_boundary), c and d
\* the masks of a masked compare-and-swap or the bit positions a field
\* fetch-and-add was called with; seq numbers the posts in program order.
WR(op, wr_id, signaled, laddr, size, raddr, a, b, c, d) ==
    [op |-> op, wr_id |-> wr_id, signaled |-> signaled, laddr |-> laddr,
     size |-> size, raddr |-> raddr, lkey |-> 0, rkey |-> 0, a |-> a,
     b |-> b, c |-> c, d |-> d, seq |-> 0]

\* The result of a library call on RC end i of rank r towards p.
RcCall(fn, r, p, i, out, wr) ==
    [fn |-> fn, rank |-> r, out |-> out, peer |-> p, id |-> i, wr |-> wr]

\* A post that queues the work request whatever the key matching says.
RcPostUnchecked(fn, r, p, i, wr, one_sided, atomic) ==
    /\ up[r]
    /\ i \in DOMAIN rcs[r][p]
    /\ rcs[r][p][i].qp.state = "RTS"
    /\ rcs' = [rcs EXCEPT ![r][p][i].sq =
                  Append(@, [wr EXCEPT !.seq = posted.rc + 1])]
    /\ last' = RcCall(fn, r, p, i, 0, [wr EXCEPT !.seq = posted.rc + 1])
    /\ posted' = [posted EXCEPT !.rc = @ + 1]

\* An alignment check that lets 4-byte aligned addresses through.
MisalignedBy4(addr) == addr % 4 # 0

\* (dst & 0x7) != 0
Misaligned(addr) == addr % 8 # 0

\* The common shape of the post_* methods that use the send queue: the
\* alignment check of the atomics, match_mr_lkey on the local range,
\* match_remote_mr_rkey on the remote range of a one-sided operation, then
\* ibv_post_send. Emergency::abort throws, so nothing is queued after it.
RcPost(fn, r, p, i, wr, one_sided, atomic) ==
    /\ up[r]
    /\ i \in DOMAIN rcs[r][p]
    /\ rcs[r][p][i].qp.state = "RTS"
    /\ LET lkey == match_mr_lkey(r, wr.laddr, wr.size)
           rkey == IF one_sided
                   THEN match_remote_mr_rkey(r, p, wr.raddr, wr.size) ELSE 0
           full == [wr EXCEPT !.lkey = lkey, !.rkey = rkey,
                              !.seq = posted.rc + 1]
       IN IF \/ atomic /\ Misaligned(wr.raddr)
             \/ lkey = Aborted
             \/ rkey = Aborted
          THEN /\ last' = RcCall(fn, r, p, i, Aborted, wr)
               /\ UNCHANGED rcs
          ELSE /\ last' = RcCall(fn, r, p, i, 0, full)
               /\ rcs' = [rcs EXCEPT ![r][p][i].sq = Append(@, full)]
    /\ posted' = [posted EXCEPT !.rc = @ + 1]

\* What the post_* and poll_* methods never touch, and what a call of one
\* of them leaves alone.
RcFixed ==
    UNCHANGED <<ctxVars, life, hist, refcnt, connected, xrcs, nrmrs,
                remote_mrs, xrc_srq_nums, qp_log, sent_mrs, nicVars, oob, pc,
                ret, est, runs, up, extra, faults, matched>>
PostFrame == RcFixed /\ UNCHANGED <<mem, prog, rp, barrier>>

\* ReliableConnection::post_read
PostRead(r, p, i, dst, src, size, signaled, wr_id) ==
    /\ RcPost("post_read", r, p, i,
              WR("READ", wr_id, signaled, dst, size, src, 0, 0, 0, 0),
              TRUE, FALSE)
    /\ PostFrame

\* ReliableConnection::post_write
PostWrite(r, p, i, dst, src, size, signaled, wr_id) ==
    /\ RcPost("post_write", r, p, i,
              WR("WRITE", wr_id, signaled, src, size, dst, 0, 0, 0, 0),
              TRUE, FALSE)
    /\ PostFrame

\* ReliableConnection::post_send
PostSend(r, p, i, src, size, signaled, wr_id) ==
    /\ RcPost("post_send", r, p, i,
              WR("SEND", wr_id, signaled, src, size, 0, 0, 0, 0, 0),
              FALSE, FALSE)
    /\ PostFrame

\* ReliableConnection::post_recv: match_mr_lkey on the buffer, then
\* ibv_post_recv.
PostRecv(r, p, i, dst, size, wr_id) ==
    /\ up[r]
    /\ i \in DOMAIN rcs[r][p]
    /\ LET wr == WR("RECV", wr_id, TRUE, dst, size, 0, 0, 0, 0, 0)
           lkey == match_mr_lkey(r, dst, size)
           full == [wr EXCEPT !.lkey = lkey, !.seq = posted.rc + 1]
       IN IF lkey = Aborted
          THEN /\ last' = RcCall("post_recv", r, p, i, Aborted, wr)
               /\ UNCHANGED rcs
          ELSE /\ last' = RcCall("post_recv", r, p, i, 0, full)
               /\ rcs' = [rcs EXCEPT ![r][p][i].rq = Append(@, full)]
    /\ posted' = [posted EXCEPT !.rc = @ + 1]
    /\ PostFrame

\* ReliableConnection::post_atomic_cas: the expected value is read from the
\* compare buffer when the call is made.
PostAtomicCas(r, p, i, dst, compare, swap, signaled, wr_id) ==
    /\ RcPost("post_atomic_cas", r, p, i,
              WR("CAS", wr_id, signaled, compare, 8, dst, Load(r, compare),
                 swap, 0, 0),
              TRUE, TRUE)
    /\ PostFrame

\* ReliableConnection::post_atomic_faa
PostAtomicFaa(r, p, i, dst, fetch, add, signaled, wr_id) ==
    /\ RcPost("post_atomic_faa", r, p, i,
              WR("FAA", wr_id, signaled, fetch, 8, dst, add, 0, 0, 0),
              TRUE, TRUE)
    /\ PostFrame

\* ReliableConnection::post_masked_atomic_cas
PostMaskedAtomicCas(r, p, i, dst, compare, compare_mask, swap, swap_mask, signaled, wr_id) ==
    /\ RcPost("post_masked_atomic_cas", r, p, i,
              WR("MASKED_CAS", wr_id, signaled, compare, 8, dst,
                 Load(r, compare), swap, compare_mask, swap_mask),
              TRUE, TRUE)
    /\ PostFrame

\* add << lowest_bit, and 1ull << highest_bit, on words.
ShiftedAdd(add, lowest_bit) == (add * (2 ^ lowest_bit)) % WordMod
FieldBoundary(highest_bit) == 2 ^ highest_bit

\* ReliableConnection::post_field_atomic_faa
PostFieldAtomicFaa(r, p, i, dst, fetch, add, highest_bit, lowest_bit, signaled, wr_id) ==
    /\ RcPost("post_field_atomic_faa", r, p, i,
              WR("MASKED_FAA", wr_id, signaled, fetch, 8, dst,
                 ShiftedAdd(add, lowest_bit), FieldBoundary(highest_bit),
                 highest_bit, lowest_bit),
              TRUE, TRUE)
    /\ PostFrame

\* ReliableConnection::post_masked_atomic_faa
PostMaskedAtomicFaa(r, p, i, dst, fetch, add, boundary, signaled, wr_id) ==
    /\ RcPost("post_masked_atomic_faa", r, p, i,
              WR("MASKED_FAA", wr_id, signaled, fetch, 8, dst, add, boundary,
                 0, 0),
              TRUE, TRUE)
    /\ PostFrame

\* The RC ends of rank p: <<peer, slot>>.
RcEnds(p) == UNION {{<<q, j>> : j \in DOMAIN rcs[p][q]} : q \in Others(p)}

\* The NIC of rank r finds a registered region with this key over the range.
KeyCovers(r, key, local, addr, size) ==
    \E k \in Slots(nmrs[r]) :
        /\ (IF local THEN mrs[r][k].lkey ELSE mrs[r][k].rkey) = key
        /\ Covers(mrs[r][k], addr, size)

\* A fetch-and-add carried out as a read and a later write by the poster: the
\* sum is formed with the value the poster's buffer holds.
RemoteWordUnfetched(wr, old, src) ==
    IF wr.op = "FAA" THEN (src + wr.a) % WordMod ELSE old

\* The remote word after the NIC has carried out wr on a word holding old.
RemoteWord(wr, old, src) ==
    CASE wr.op = "WRITE" -> src
      [] wr.op = "CAS" -> IF old = wr.a THEN wr.b ELSE old
      [] wr.op = "FAA" -> (old + wr.a) % WordMod
      [] wr.op = "MASKED_CAS" ->
            IF MaskedEqual(old, wr.a, wr.c) THEN MaskedSwap(old, wr.b, wr.d)
            ELSE old
      [] wr.op = "MASKED_FAA" -> MaskedAdd(old, wr.a, wr.b)
      [] OTHER -> old

\* A NIC that carries out the newest work request of a send queue first.
NewestWr(sq) == Len(sq)

\* The work requests of a send queue are carried out in the order they were
\* posted: the position of the one the NIC takes next.
OldestWr(sq) == 1

\* The send queue without its k-th work request.
Without(sq, k) == SubSeq(sq, 1, k - 1) \o SubSeq(sq, k + 1, Len(sq))

\* A completion queue entry.
Cqe(wr, status) ==
    [wr_id |-> wr.wr_id, status |-> status, op |-> wr.op, seq |-> wr.seq]

\* The NICs carry out the oldest work request of the send queue of RC end i
\* of rank r towards p, on the QP that queue pair is connected to. A one-sided
\* operation reads or changes the remote word and, but for a WRITE, stores
\* the previous remote value in the local buffer; a SEND consumes the oldest
\* receive of the remote end (with rnr_retry = 7 the sender retries until
\* there is one). A signaled request, and every failed one, completes on the
\* send CQ.
RcExecute(r, p, i) ==
    /\ i \in DOMAIN rcs[r][p]
    /\ rcs[r][p][i].sq # << >>
    /\ rcs[r][p][i].qp.state = "RTS"
    /\ LET x == rcs[r][p][i]
           k == OldestWr(x.sq)
           wr == x.sq[k]
           tgts == {e \in RcEnds(p) :
                       /\ rcs[p][e[1]][e[2]].qp.qp_num = x.qp.dest_qp_num
                       /\ rcs[p][e[1]][e[2]].qp.state \in {"RTR", "RTS"}}
           old == Load(p, wr.raddr)
           src == Load(r, wr.laddr)
           new == RemoteWord(wr, old, src)
           done == IF wr.signaled THEN Append(x.send_cq, Cqe(wr, "SUCCESS"))
                   ELSE x.send_cq
       IN IF \/ tgts = {}
             \/ ~KeyCovers(r, wr.lkey, TRUE, wr.laddr, wr.size)
             \/ wr.op # "SEND"
                  /\ ~KeyCovers(p, wr.rkey, FALSE, wr.raddr, wr.size)
          THEN /\ rcs' = [rcs EXCEPT ![r][p][i].sq = Without(@, k),
                                     ![r][p][i].qp.state = "Error",
                                     ![r][p][i].send_cq =
                                         Append(@, Cqe(wr, "ERROR"))]
               /\ UNCHANGED <<mem, hist>>
          ELSE IF wr.op = "SEND"
          THEN \E e \in tgts :
                 /\ rcs[p][e[1]][e[2]].rq # << >>
                 /\ LET rwr == Head(rcs[p][e[1]][e[2]].rq)
                    IN /\ rcs' = [rcs EXCEPT
                              ![r][p][i].sq = Without(@, k),
                              ![r][p][i].send_cq = done,
                              ![p][e[1]][e[2]].rq = Tail(@),
                              ![p][e[1]][e[2]].recv_cq =
                                  Append(@, Cqe(rwr, "SUCCESS"))]
                       /\ mem' = Stored(mem, p, rwr.laddr, src)
                 /\ UNCHANGED hist
          ELSE /\ rcs' = [rcs EXCEPT ![r][p][i].sq = Without(@, k),
                                     ![r][p][i].send_cq = done]
               /\ mem' = IF wr.op = "WRITE" THEN Stored(mem, p, wr.raddr, new)
                         ELSE Stored(Stored(mem, p, wr.raddr, new),
                                     r, wr.laddr, old)
               /\ hist' = Append(hist, [rank |-> r, peer |-> p, id |-> i,
                                        op |-> wr.op, wr_id |-> wr.wr_id,
                                        seq |-> wr.seq, raddr |-> wr.raddr,
                                        laddr |-> wr.laddr, a |-> wr.a,
                                        b |-> wr.b, c |-> wr.c, d |-> wr.d,
                                        old |-> old, new |-> new])
    /\ UNCHANGED <<ctxVars, planeVars, last, life, prog, rp, refcnt, connected,
                   xrcs, nrmrs, remote_mrs, xrc_srq_nums, qp_log, sent_mrs,
                   nicVars, oob, barrier, pc, ret, est, runs, up, extra,
                   faults>>

\* A poll that looks at the status of the first entry only.
AnyFailedFirst(wcs) == wcs # << >> /\ wcs[1].status # "SUCCESS"

\* for (j ...) if (wc_arr[j].status != IBV_WC_SUCCESS) over the entries taken
AnyFailed(wcs) == \E j \in DOMAIN wcs : wcs[j].status # "SUCCESS"

\* ReliableConnection::poll_send_cq(n): the call returns once it has taken n
\* completions off the send CQ, and aborts if one of them is a failure.
RcPoll(r, p, i, n) ==
    /\ up[r]
    /\ i \in DOMAIN rcs[r][p]
    /\ Len(rcs[r][p][i].send_cq) >= n
    /\ LET wcs == SubSeq(rcs[r][p][i].send_cq, 1, n)
       IN /\ rcs' = [rcs EXCEPT ![r][p][i].send_cq = SubSeq(@, n + 1, Len(@))]
          /\ last' = [fn |-> "poll_send_cq", rank |-> r,
                      out |-> IF AnyFailed(wcs) THEN Aborted ELSE n,
                      peer |-> p, id |-> i, wcs |-> wcs]

\* A caller of poll_send_cq(n).
PollSendCq(r, p, i, n) ==
    /\ RcPoll(r, p, i, n)
    /\ RcFixed
    /\ UNCHANGED <<posted, mem, prog, rp, barrier>>

(***************************************************************************)
(* Specifications of the RC data plane                                     *)
(***************************************************************************)

\* The region a rank registers for RC traffic: its whole buffer.
RcRegion(r) == <<BufBase(r), BufLen>>

\* Every rank has registered its buffer, or nothing at all.
InitPost ==
    \E k \in [Hosts(NumRanks) -> {0, 1}] :
        InitFrom([r \in Hosts(NumRanks) |-> Registered(r, <<RcRegion(r)>>, k[r])])

\* Local addresses handed to the post_* methods: the first word of the
\* buffer, and one whose 8 bytes end beyond the buffer.
PostLocal(r) == {BufBase(r), BufBase(r) + BufLen - 4}

\* Remote addresses handed to them: a word of the peer's buffer, a
\* misaligned address inside it, and the first address beyond it.
PostRemote(p) == {BufBase(p) + 8, BufBase(p) + 4, BufBase(p) + BufLen}

\* One thread per rank brings the cluster up with one RC end per peer;
\* afterwards callers use every post_* method of the end with covered and
\* uncovered ranges, the NICs carry the requests out and callers poll.
NextPost ==
    \/ \E r \in Ranks : CasWins(r) /\ Establish(r, 1, 1, 0)
    \/ \E r \in Ranks : OpeningBarrier(r, 1)
    \/ \E r \in Ranks : PeerEstablishSend(r, 1)
    \/ \E r \in Ranks : PeerEstablishRecv(r, 1, 0)
    \/ \E r \in Ranks : ClosingBarrier(r, 1)
    \/ \E r \in Ranks : \E a \in PostLocal(r) : MatchMrLkey(r, a, 8)
    \/ \E r \in Ranks : \E p \in Others(r) : \E a \in PostRemote(p) :
          MatchRemoteMrRkey(r, p, a, 8)
    \/ \E r \in Ranks : \E p \in Others(r) :
          \E l \in PostLocal(r), a \in PostRemote(p) :
          /\ posted.rc < MaxPosts
          /\ \/ PostRead(r, p, 0, l, a, 8, TRUE, 0)
             \/ PostWrite(r, p, 0, a, l, 8, TRUE, 0)
             \/ PostAtomicCas(r, p, 0, a, l, 1, TRUE, 0)
             \/ PostAtomicFaa(r, p, 0, a, l, 1, TRUE, 0)
             \/ PostMaskedAtomicCas(r, p, 0, a, l, 1, 1, 1, TRUE, 0)
             \/ PostFieldAtomicFaa(r, p, 0, a, l, 1, 1, 0, TRUE, 0)
             \/ PostMaskedAtomicFaa(r, p, 0, a, l, 1, 2, TRUE, 0)
    \/ \E r \in Ranks : \E p \in Others(r) : \E l \in PostLocal(r) :
          /\ posted.rc < MaxPosts
          /\ \/ PostSend(r, p, 0, l, 8, TRUE, 0)
             \/ PostRecv(r, p, 0, l, 8, 0)
    \/ \E r \in Ranks : \E p \in Others(r) : RcExecute(r, p, 0)
    \/ \E r \in Ranks : \E p \in Others(r) : PollSendCq(r, p, 0, 1)

SpecPost == InitPost /\ [][NextPost]_vars

\* Every rank has registered its buffer.
InitRc == InitFrom([r \in Hosts(NumRanks) |-> Registered(r, <<RcRegion(r)>>, 1)])

\* The work request ids callers choose: they may repeat and decrease.
WrIds == {0, 1}

\* One thread per rank brings the cluster up with one RC end per peer;
\* afterwards callers post WRITEs and READs, signaled or not, with the ids
\* they like, the NICs carry them out and callers poll one completion at a
\* time.
NextWrite ==
    \/ \E r \in Ranks : CasWins(r) /\ Establish(r, 1, 1, 0)
    \/ \E r \in Ranks : OpeningBarrier(r, 1)
    \/ \E r \in Ranks : PeerEstablishSend(r, 1)
    \/ \E r \in Ranks : PeerEstablishRecv(r, 1, 0)
    \/ \E r \in Ranks : ClosingBarrier(r, 1)
    \/ \E r \in Ranks, signaled \in BOOLEAN, wr_id \in WrIds :
          \E p \in Others(r) :
             /\ posted.rc < MaxWrites
             /\ \/ PostWrite(r, p, 0, BufBase(p) + 64, BufBase(r), 8, signaled,
                             wr_id)
                \/ PostRead(r, p, 0, BufBase(r) + 8, BufBase(p), 8, signaled,
                            wr_id)
    \/ \E r \in Ranks : \E p \in Others(r) : RcExecute(r, p, 0)
    \/ \E r \in Ranks : \E p \in Others(r) : PollSendCq(r, p, 0, 1)

SpecWrite == InitRc /\ [][NextWrite]_vars

(***************************************************************************)
(* The hello program: a ring of WRITEs                                     *)
(***************************************************************************)

\* What rank id prints into its buffer ("hello from <id>"), as one word.
Hello(id) == id + 1

\* A program that writes to the rank before it in the ring.
RingPrev(id) == (id + Cardinality(Ranks) - 1) % Cardinality(Ranks)

\* int next_id = (id + 1) % n
RingNext(id) == (id + 1) % Cardinality(Ranks)

\* The program moves on to statement `to`.
Goto(r, to) == prog' = [prog EXCEPT ![r].at = to]

\* cluster.connect(): one RC end per peer.
RingConnect(r) ==
    /\ prog[r].at = "start"
    /\ CasWins(r)
    /\ Establish(r, 1, 1, 0)

\* sprintf(buf, "hello from %d", id), once connect() has returned.
RingSprintf(r) ==
    /\ prog[r].at = "start"
    /\ up[r] /\ pc[r][1] = Idle
    /\ mem' = Stored(mem, r, BufBase(r), Hello(r))
    /\ Goto(r, "post_write")
    /\ RcFixed
    /\ UNCHANGED <<rcs, last, posted, rp, barrier>>

\* conn.post_write(dst + 64, buf, strlen(buf), true) on connection 0 of the
\* next rank, dst being the base of its MR 0.
RingPostWrite(r) ==
    /\ prog[r].at = "post_write"
    /\ RcPost("post_write", r, RingNext(r), 0,
              WR("WRITE", 0, TRUE, BufBase(r), 12,
                 remote_mrs[r][RingNext(r)][0].addr + 64, 0, 0, 0, 0),
              TRUE, FALSE)
    /\ Goto(r, IF last'.out = Aborted THEN "aborted" ELSE "poll_send_cq")
    /\ RcFixed
    /\ UNCHANGED <<mem, rp, barrier>>

\* conn.poll_send_cq()
RingPoll(r) ==
    /\ prog[r].at = "poll_send_cq"
    /\ RcPoll(r, RingNext(r), 0, 1)
    /\ Goto(r, IF last'.out = Aborted THEN "aborted" ELSE "sync")
    /\ RcFixed
    /\ UNCHANGED <<posted, mem, rp, barrier>>

\* Cluster::sync up to MPI_Barrier.
Sync(r) ==
    /\ prog[r].at = "sync"
    /\ barrier' = [barrier EXCEPT ![r] = @ + 1]
    /\ Goto(r, "in_sync")
    /\ RcFixed
    /\ UNCHANGED <<rcs, last, posted, mem, rp>>

\* MPI_Barrier returns, then printf("%d: %s\n", id, buf + 64).
RingPrint(r) ==
    /\ prog[r].at = "in_sync"
    /\ BarrierOpen(r)
    /\ prog' = [prog EXCEPT ![r].at = "done",
                            ![r].seen = Append(@, Load(r, BufBase(r) + 64))]
    /\ RcFixed
    /\ UNCHANGED <<rcs, last, posted, mem, rp, barrier>>

\* Every rank of a ring of RingSize has registered its zeroed buffer.
InitRing ==
    InitFrom([r \in Hosts(RingSize) |-> Registered(r, <<RcRegion(r)>>, 1)])

\* Every rank runs the program; the NICs carry the WRITEs out when they like.
NextRing ==
    \/ \E r \in Ranks : RingConnect(r)
    \/ \E r \in Ranks : OpeningBarrier(r, 1)
    \/ \E r \in Ranks : PeerEstablishSend(r, 1)
    \/ \E r \in Ranks : PeerEstablishRecv(r, 1, 0)
    \/ \E r \in Ranks : ClosingBarrier(r, 1)
    \/ \E r \in Ranks : RingSprintf(r)
    \/ \E r \in Ranks : RingPostWrite(r)
    \/ \E r \in Ranks : \E p \in Others(r) : RcExecute(r, p, 0)
    \/ \E r \in Ranks : RingPoll(r)
    \/ \E r \in Ranks : Sync(r)
    \/ \E r \in Ranks : RingPrint(r)

SpecRing == InitRing /\ [][NextRing]_vars

(***************************************************************************)
(* rptr<uint64_t>                                                          *)
(***************************************************************************)

\* One more call made on an rptr, none of them a post.
RptrCalled ==
    /\ posted' = [posted EXCEPT !.rc = @ + 1]
    /\ UNCHANGED <<rcs, last>>

\* The application on rank r stores v into a word of its own buffer.
Store(r, a, v) ==
    /\ a \in DOMAIN mem[r]
    /\ mem' = Stored(mem, r, a, v)
    /\ RptrCalled
    /\ RcFixed
    /\ UNCHANGED <<prog, rp, barrier>>

\* rptr<T>::rptr(rc, remote_ptr, local_ptr) on connection 0 towards p, with the
\* second word of the caller's buffer as the local copy; volatile says whether
\* T is volatile-qualified.
RptrNew(r, p, remote_ptr, volatile) ==
    /\ up[r]
    /\ rp[r].at = "none"
    /\ rp' = [rp EXCEPT ![r] = [NoRptr EXCEPT !.peer = p, !.remote = remote_ptr,
                                             !.local = BufBase(r) + 8,
                                             !.volatile = volatile,
                                             !.at = "idle"]]
    /\ RcFixed
    /\ UNCHANGED <<rcs, last, posted, mem, prog, barrier>>

\* Where a call that has posted goes on, or that it was aborted.
After(to) == IF last'.out = Aborted THEN "aborted" ELSE to

\* A dereference that reads only when the local copy is not valid.
MustReadUnlessValid(valid, volatile) == ~valid

\* if (!valid || std::is_volatile_v<T>)
MustRead(valid, volatile) == ~valid \/ volatile

\* rptr::operator* up to poll_send_cq: a valid pointer to a non-volatile T
\* returns its local copy, any other posts a signaled READ.
Deref(r) ==
    /\ rp[r].at = "idle"
    /\ IF MustRead(rp[r].valid, rp[r].volatile)
       THEN /\ RcPost("post_read", r, rp[r].peer, 0,
                      WR("READ", 0, TRUE, rp[r].local, 8, rp[r].remote,
                         0, 0, 0, 0),
                      TRUE, FALSE)
            /\ rp' = [rp EXCEPT ![r].at = After("deref_poll"),
                                ![r].seq = posted.rc + 1,
                                ![r].reads = @ + 1]
       ELSE /\ RptrCalled
            /\ rp' = [rp EXCEPT ![r].ret =
                         RptrRet("deref", Load(r, rp[r].local), 0, 0, 0)]
    /\ RcFixed
    /\ UNCHANGED <<mem, prog, barrier>>

\* rptr::operator* from poll_send_cq on: one completion, valid = true, and
\* the local copy is returned.
DerefReturn(r) ==
    /\ rp[r].at = "deref_poll"
    /\ RcPoll(r, rp[r].peer, 0, 1)
    /\ rp' = [rp EXCEPT ![r].at = After("idle"),
                        ![r].valid = last'.out # Aborted,
                        ![r].ret = RptrRet("deref", Load(r, rp[r].local),
                                           rp[r].seq, 0, 0)]
    /\ RcFixed
    /\ UNCHANGED <<posted, mem, prog, barrier>>

\* rptr::validate(_valid), and invalidate() as validate(false).
Validate(r, valid) ==
    /\ rp[r].at = "idle"
    /\ rp' = [rp EXCEPT ![r].valid = valid]
    /\ RptrCalled
    /\ RcFixed
    /\ UNCHANGED <<mem, prog, barrier>>

\* rptr::operator=(uintptr_t)
Assign(r, remote_ptr) ==
    /\ rp[r].at = "idle"
    /\ rp' = [rp EXCEPT ![r].remote = remote_ptr,
                        ![r].valid = IF remote_ptr # rp[r].remote THEN FALSE
                                     ELSE @]
    /\ RptrCalled
    /\ RcFixed
    /\ UNCHANGED <<mem, prog, barrier>>

\* rptr::commit(sync) up to poll_send_cq: commit(0, sizeof(T), sync) posts a
\* signaled WRITE if the pointer is valid, then validate().
Commit(r, sync) ==
    /\ rp[r].at = "idle"
    /\ IF rp[r].valid
       THEN /\ RcPost("post_write", r, rp[r].peer, 0,
                      WR("WRITE", 0, TRUE, rp[r].local, 8, rp[r].remote,
                         0, 0, 0, 0),
                      TRUE, FALSE)
            /\ rp' = [rp EXCEPT ![r].at = After(IF sync THEN "commit_poll"
                                                ELSE "idle"),
                                ![r].seq = posted.rc + 1,
                                ![r].committed = <<Load(r, rp[r].local)>>]
       ELSE /\ RptrCalled
            /\ rp' = [rp EXCEPT ![r].valid = TRUE,
                                ![r].committed = <<Load(r, rp[r].local)>>]
    /\ RcFixed
    /\ UNCHANGED <<mem, prog, barrier>>

\* rptr::commit(true) from poll_send_cq on.
CommitReturn(r) ==
    /\ rp[r].at = "commit_poll"
    /\ RcPoll(r, rp[r].peer, 0, 1)
    /\ rp' = [rp EXCEPT ![r].at = After("idle")]
    /\ RcFixed
    /\ UNCHANGED <<posted, mem, prog, barrier>>

\* rptr::compare_exchange: the statement after post_atomic_cas.
CompareExchangePolls(sync) == IF sync THEN "cx_poll" ELSE "cx_return"

\* rptr::compare_exchange up to poll_send_cq: the local copy is set to
\* compare and a signaled CAS is posted.
CompareExchange(r, compare, exchange, sync) ==
    /\ rp[r].at = "idle"
    /\ mem' = Stored(mem, r, rp[r].local, compare)
    /\ RcPost("post_atomic_cas", r, rp[r].peer, 0,
              WR("CAS", 0, TRUE, rp[r].local, 8, rp[r].remote, compare,
                 exchange, 0, 0),
              TRUE, TRUE)
    /\ rp' = [rp EXCEPT ![r].at = After(CompareExchangePolls(sync)),
                        ![r].seq = posted.rc + 1,
                        ![r].a = compare, ![r].b = exchange]
    /\ RcFixed
    /\ UNCHANGED <<prog, barrier>>

\* rptr::compare_exchange from poll_send_cq on: one completion if sync, then
\* validate() and the comparison of the local copy with compare.
CompareExchangeReturn(r) ==
    /\ rp[r].at \in {"cx_poll", "cx_return"}
    /\ IF rp[r].at = "cx_poll" THEN RcPoll(r, rp[r].peer, 0, 1)
       ELSE UNCHANGED <<rcs, last>>
    /\ rp' = [rp EXCEPT
                 ![r].at = IF rp[r].at = "cx_poll" THEN After("idle")
                           ELSE "idle",
                 ![r].valid = TRUE,
                 ![r].ret = RptrRet("compare_exchange",
                                    IF Load(r, rp[r].local) = rp[r].a THEN 1
                                    ELSE 0,
                                    rp[r].seq, rp[r].a, rp[r].b)]
    /\ RcFixed
    /\ UNCHANGED <<posted, mem, prog, barrier>>

\* The words an rptr of rank r points at on peer p, and the values callers
\* compare, exchange and store.
RptrTargets(p) == {BufBase(p), BufBase(p) + 8}
RptrVals == {0, 1}

\* One thread per rank brings the cluster up with one RC end per peer; one
\* rank constructs an rptr on its end, stores into the local copy,
\* dereferences, validates, re-targets and commits the pointer and
\* compare-exchanges through it, synchronously or not, while the owner of
\* the remote word stores into it and the NICs carry the requests out.
NextRptr ==
    \/ \E r \in Ranks : CasWins(r) /\ Establish(r, 1, 1, 0)
    \/ \E r \in Ranks : OpeningBarrier(r, 1)
    \/ \E r \in Ranks : PeerEstablishSend(r, 1)
    \/ \E r \in Ranks : PeerEstablishRecv(r, 1, 0)
    \/ \E r \in Ranks : ClosingBarrier(r, 1)
    \/ \E r \in Ranks : \E p \in Others(r) :
          /\ \A q \in Ranks : rp[q].at = "none"
          /\ RptrNew(r, p, BufBase(p), FALSE)
    \/ \E r \in Ranks : \E p \in Others(r) : RcExecute(r, p, 0)
    \/ \E r \in Ranks : DerefReturn(r)
    \/ \E r \in Ranks : CommitReturn(r)
    \/ \E r \in Ranks : CompareExchangeReturn(r)
    \/ /\ posted.rc < MaxRptrCalls
       /\ \/ \E r \in Ranks : Deref(r)
          \/ \E r \in Ranks, valid \in BOOLEAN : Validate(r, valid)
          \/ \E r \in Ranks : \E a \in RptrTargets(rp[r].peer) : Assign(r, a)
          \/ \E r \in Ranks, sync \in BOOLEAN : Commit(r, sync)
          \/ \E r \in Ranks, c \in RptrVals, sync \in BOOLEAN :
                CompareExchange(r, c, c + 1, sync)
          \/ \E r \in Ranks, v \in RptrVals :
                /\ rp[r].at # "none"
                /\ \/ rp[r].at = "idle" /\ Store(r, rp[r].local, v)
                   \/ Store(rp[r].peer, rp[r].remote, v)

SpecRptr == InitRc /\ [][NextRptr]_vars

\* A fresh rptr on the same connection and remote address as the one rank r
\* holds, with another word of the buffer as its local copy. (committed, the
\* value the local copy held at the last commit(), is kept for the record.)
RptrFresh(r, local_ptr) ==
    /\ rp[r].at = "idle"
    /\ rp[r].local # local_ptr
    /\ rp' = [rp EXCEPT ![r] = [NoRptr EXCEPT !.peer = rp[r].peer,
                                             !.remote = rp[r].remote,
                                             !.local = local_ptr,
                                             !.volatile = rp[r].volatile,
                                             !.committed = rp[r].committed,
                                             !.at = "idle"]]
    /\ RcFixed
    /\ UNCHANGED <<rcs, last, posted, mem, prog, barrier>>

\* One rank constructs an rptr, validates, invalidates or dereferences it,
\* updates it (a store into the local copy, then commit() or commit(true)),
\* and constructs and dereferences a fresh rptr to the same word; nobody else
\* stores into the word.
NextCommit ==
    \/ \E r \in Ranks : CasWins(r) /\ Establish(r, 1, 1, 0)
    \/ \E r \in Ranks : OpeningBarrier(r, 1)
    \/ \E r \in Ranks : PeerEstablishSend(r, 1)
    \/ \E r \in Ranks : PeerEstablishRecv(r, 1, 0)
    \/ \E r \in Ranks : ClosingBarrier(r, 1)
    \/ \E r \in Ranks : \E p \in Others(r) :
          /\ \A q \in Ranks : rp[q].at = "none"
          /\ RptrNew(r, p, BufBase(p), FALSE)
    \/ \E r \in Ranks : \E p \in Others(r) : RcExecute(r, p, 0)
    \/ \E r \in Ranks : DerefReturn(r)
    \/ \E r \in Ranks : CommitReturn(r)
    \/ \E r \in Ranks : rp[r].committed # << >> /\ RptrFresh(r, BufBase(r) + 16)
    \/ /\ posted.rc < MaxRptrCalls
       /\ \/ \E r \in Ranks : Deref(r)
          \/ \E r \in Ranks, valid \in BOOLEAN :
                rp[r].committed = << >> /\ Validate(r, valid)
          \/ \E r \in Ranks, sync \in BOOLEAN :
                rp[r].local = BufBase(r) + 8 /\ Commit(r, sync)
          \/ \E r \in Ranks, v \in RptrVals :
                /\ rp[r].at = "idle" /\ rp[r].local = BufBase(r) + 8
                /\ Store(r, rp[r].local, v + 1)

SpecCommit == InitRc /\ [][NextCommit]_vars

\* ReliableConnection::poll_send_cq_once(wc_arr, n): whatever the send CQ
\* holds, n entries at most, is taken off it without waiting; a failed entry
\* among them aborts.
RcPollOnce(r, p, i, n) ==
    /\ up[r]
    /\ i \in DOMAIN rcs[r][p]
    /\ LET cq == rcs[r][p][i].send_cq
           res == IF Len(cq) < n THEN Len(cq) ELSE n
           wcs == SubSeq(cq, 1, res)
       IN /\ rcs' = [rcs EXCEPT ![r][p][i].send_cq = SubSeq(cq, res + 1, Len(cq))]
          /\ last' = [fn |-> "poll_send_cq_once", rank |-> r,
                      out |-> IF AnyFailed(wcs) THEN Aborted ELSE res,
                      peer |-> p, id |-> i, wcs |-> wcs]

\* rptr::field_fetch_add_timelimit(time_limit_us, success, add, highest_bit,
\* lowest_bit, sync) up to the loop: the field FAA is posted, signaled if
\* sync, and the clock is read.
FieldFetchAddTimelimit(r, time_limit_us, add, highest_bit, lowest_bit, sync) ==
    /\ rp[r].at = "idle"
    /\ RcPost("post_field_atomic_faa", r, rp[r].peer, 0,
              WR("MASKED_FAA", 0, sync, rp[r].local, 8, rp[r].remote,
                 ShiftedAdd(add, lowest_bit), FieldBoundary(highest_bit),
                 highest_bit, lowest_bit),
              TRUE, TRUE)
    /\ rp' = [rp EXCEPT ![r].at = After(IF sync THEN "tl_loop" ELSE "tl_done"),
                        ![r].seq = posted.rc + 1,
                        ![r].a = time_limit_us, ![r].b = 0]
    /\ RcFixed
    /\ UNCHANGED <<mem, prog, barrier>>

\* A microsecond passes while rank r is inside the timed call.
Tick(r) ==
    /\ rp[r].at \in {"tl_loop", "tl_done"}
    /\ rp[r].b < MaxElapsed
    /\ rp' = [rp EXCEPT ![r].b = @ + 1]
    /\ RcFixed
    /\ UNCHANGED <<rcs, last, posted, mem, prog, barrier>>

\* The test the loop makes on the elapsed time before it gives up.
GivesUp(elapsed, time_limit_us) == elapsed < time_limit_us

\* rptr::field_fetch_add_timelimit, one round of while (true): the call gives
\* up with *success = false and a zero T, or polls once and, with a
\* completion, returns *success = true, valid = true and the local copy.
\* Without sync there is no loop. (ret: out is *success, a the microseconds
\* elapsed at the return, b the limit.)
TimelimitRound(r) ==
    /\ rp[r].at \in {"tl_loop", "tl_done"}
    /\ IF rp[r].at = "tl_loop" /\ GivesUp(rp[r].b, rp[r].a)
       THEN /\ rp' = [rp EXCEPT ![r].at = "idle",
                                ![r].ret = RptrRet("field_fetch_add_timelimit",
                                                   0, rp[r].seq, rp[r].b,
                                                   rp[r].a)]
            /\ UNCHANGED <<rcs, last>>
       ELSE /\ IF rp[r].at = "tl_loop" THEN RcPollOnce(r, rp[r].peer, 0, 1)
               ELSE UNCHANGED <<rcs, last>>
            /\ rp' = IF rp[r].at = "tl_loop" /\ last'.out = Aborted
                     THEN [rp EXCEPT ![r].at = "aborted"]
                     ELSE IF rp[r].at = "tl_loop" /\ last'.out = 0
                     THEN rp
                     ELSE [rp EXCEPT
                             ![r].at = "idle",
                             ![r].valid = TRUE,
                             ![r].ret = RptrRet("field_fetch_add_timelimit",
                                                1, rp[r].seq, rp[r].b,
                                                rp[r].a)]
    /\ RcFixed
    /\ UNCHANGED <<posted, mem, prog, barrier>>

\* One rank constructs an rptr and makes timed field additions through it,
\* while time passes and the NICs carry the requests out.
NextTimelimit ==
    \/ \E r \in Ranks : CasWins(r) /\ Establish(r, 1, 1, 0)
    \/ \E r \in Ranks : OpeningBarrier(r, 1)
    \/ \E r \in Ranks : PeerEstablishSend(r, 1)
    \/ \E r \in Ranks : PeerEstablishRecv(r, 1, 0)
    \/ \E r \in Ranks : ClosingBarrier(r, 1)
    \/ \E r \in Ranks : \E p \in Others(r) :
          /\ \A q \in Ranks : rp[q].at = "none"
          /\ RptrNew(r, p, BufBase(p), FALSE)
    \/ \E r \in Ranks : \E p \in Others(r) : RcExecute(r, p, 0)
    \/ \E r \in Ranks : Tick(r)
    \/ \E r \in Ranks : TimelimitRound(r)
    \/ \E r \in Ranks, us \in 0 .. MaxElapsed, sync \in BOOLEAN :
          /\ posted.rc < MaxPosts
          /\ FieldFetchAddTimelimit(r, us, 1, WordBits - 1, 0, sync)

SpecTimelimit == InitRc /\ [][NextTimelimit]_vars

\* The same with an rptr<volatile uint64_t>.
NextVolatile ==
    \/ \E r \in Ranks : CasWins(r) /\ Establish(r, 1, 1, 0)
    \/ \E r \in Ranks : OpeningBarrier(r, 1)
    \/ \E r \in Ranks : PeerEstablishSend(r, 1)
    \/ \E r \in Ranks : PeerEstablishRecv(r, 1, 0)
    \/ \E r \in Ranks : ClosingBarrier(r, 1)
    \/ \E r \in Ranks : \E p \in Others(r) :
          /\ \A q \in Ranks : rp[q].at = "none"
          /\ RptrNew(r, p, BufBase(p), TRUE)
    \/ \E r \in Ranks : \E p \in Others(r) : RcExecute(r, p, 0)
    \/ \E r \in Ranks : DerefReturn(r)
    \/ \E r \in Ranks : CommitReturn(r)
    \/ \E r \in Ranks : CompareExchangeReturn(r)
    \/ /\ posted.rc < MaxRptrCalls
       /\ \/ \E r \in Ranks : Deref(r)
          \/ \E r \in Ranks, valid \in BOOLEAN : Validate(r, valid)
          \/ \E r \in Ranks, sync \in BOOLEAN : Commit(r, sync)
          \/ \E r \in Ranks, c \in RptrVals, sync \in BOOLEAN :
                CompareExchange(r, c, c + 1, sync)
          \/ \E r \in Ranks, v \in RptrVals :
                /\ rp[r].at # "none"
                /\ Store(rp[r].peer, rp[r].remote, v)

SpecVolatile == InitRc /\ [][NextVolatile]_vars

(***************************************************************************)
(* The cas-ordering program                                                *)
(***************************************************************************)

\* A client that posts every batch from the same half of its buffer.
CasOffsetSame(i) == 0

\* int offset = (i % 2) * Batch
CasOffset(i) == (i % 2) * Batch

\* cluster.establish()
CasConnect(r) ==
    /\ prog[r].at = "start"
    /\ CasWins(r)
    /\ Establish(r, 1, 1, 0)

\* Once establish() has returned the client enters its loop and the server
\* goes on to cluster.sync().
CasBegin(r) ==
    /\ prog[r].at = "start"
    /\ up[r] /\ pc[r][1] = Idle
    /\ Goto(r, IF r = CLIENT THEN "post" ELSE "sync")
    /\ RcFixed
    /\ UNCHANGED <<rcs, last, posted, mem, rp, barrier>>

\* Where the client goes after the post phase, and after the poll phase, of
\* iteration i of for (int i = 0; i <= NTests; ++i).
AfterPosts(i) == IF i > 0 THEN "poll" ELSE "post"
AfterChecks(i) ==
    IF i + 1 > NTests THEN "sync" ELSE IF i + 1 < NTests THEN "post" ELSE "poll"

\* One round of the inner post loop: local[j + offset] = cur++, then
\* rc.post_atomic_cas(dst, local + offset + j, cur, j + 1 == Batch, j).
CasPost(r) ==
    /\ prog[r].at = "post"
    /\ LET i == prog[r].i
           j == prog[r].j
           cur == prog[r].cur
           slot == BufBase(r) + 8 * (j + CasOffset(i))
           last_j == j + 1 = Batch
       IN /\ mem' = Stored(mem, r, slot, cur)
          /\ RcPost("post_atomic_cas", r, SERVER, 0,
                    WR("CAS", j, last_j, slot, 8,
                       remote_mrs[r][SERVER][0].addr, cur,
                       (cur + 1) % WordMod, 0, 0),
                    TRUE, TRUE)
          /\ prog' = [prog EXCEPT
                ![r].cur = (cur + 1) % WordMod,
                ![r].j = IF last_j THEN 0 ELSE j + 1,
                ![r].i = IF last_j /\ i = 0 THEN 1 ELSE i,
                ![r].at = IF last'.out = Aborted THEN "aborted"
                          ELSE IF last_j THEN AfterPosts(i) ELSE "post"]
    /\ RcFixed
    /\ UNCHANGED <<rp, barrier>>

\* rc.poll_send_cq() of the poll phase.
CasPoll(r) ==
    /\ prog[r].at = "poll"
    /\ RcPoll(r, SERVER, 0, 1)
    /\ Goto(r, After("check"))
    /\ RcFixed
    /\ UNCHANGED <<posted, mem, rp, barrier>>

\* The check loop over the batch posted one iteration earlier: the values the
\* CASes fetched into local[j + offset], offset = (1 - (i % 2)) * Batch.
CasCheck(r) ==
    /\ prog[r].at = "check"
    /\ LET i == prog[r].i
           offset == (1 - (i % 2)) * Batch
       IN prog' = [prog EXCEPT
             ![r].seen = @ \o [j \in 1 .. Batch |->
                                 Load(r, BufBase(r) + 8 * ((j - 1) + offset))],
             ![r].i = i + 1,
             ![r].at = AfterChecks(i)]
    /\ RcFixed
    /\ UNCHANGED <<rcs, last, posted, mem, rp, barrier>>

\* MPI_Barrier of Cluster::sync returns and the program ends.
SyncReturn(r) ==
    /\ prog[r].at = "in_sync"
    /\ BarrierOpen(r)
    /\ Goto(r, "done")
    /\ RcFixed
    /\ UNCHANGED <<rcs, last, posted, mem, rp, barrier>>

\* The client and the server run the program; the NICs carry the CASes out
\* when they like.
NextCas ==
    \/ \E r \in Ranks : CasConnect(r)
    \/ \E r \in Ranks : OpeningBarrier(r, 1)
    \/ \E r \in Ranks : PeerEstablishSend(r, 1)
    \/ \E r \in Ranks : PeerEstablishRecv(r, 1, 0)
    \/ \E r \in Ranks : ClosingBarrier(r, 1)
    \/ \E r \in Ranks : CasBegin(r)
    \/ CasPost(CLIENT)
    \/ RcExecute(CLIENT, SERVER, 0)
    \/ CasPoll(CLIENT)
    \/ CasCheck(CLIENT)
    \/ \E r \in Ranks : Sync(r)
    \/ \E r \in Ranks : SyncReturn(r)

\* cas-ordering runs with two hosts only.
InitCas ==
    InitFrom([r \in {CLIENT, SERVER} |-> Registered(r, <<RcRegion(r)>>, 1)])

SpecCas == InitCas /\ [][NextCas]_vars

(***************************************************************************)
(* Concurrent fetch-and-add                                                *)
(***************************************************************************)

\* The deltas the ranks add: 1 and -1 (mod 2^WordBits).
FaaAdds == {1, WordMod - 1}

\* Every rank registers its buffer, connects once to each peer, and then adds
\* to the word at offset 8 of any peer's buffer, fetching into the head of
\* its own; the NICs carry the additions out when they like.
NextFaa ==
    \/ \E r \in Ranks : CasWins(r) /\ Establish(r, 1, 1, 0)
    \/ \E r \in Ranks : OpeningBarrier(r, 1)
    \/ \E r \in Ranks : PeerEstablishSend(r, 1)
    \/ \E r \in Ranks : PeerEstablishRecv(r, 1, 0)
    \/ \E r \in Ranks : ClosingBarrier(r, 1)
    \/ \E r \in Ranks : \E p \in Others(r) : \E add \in FaaAdds :
          /\ posted.rc < MaxFaas
          /\ pc[r][1] = Idle
          /\ PostAtomicFaa(r, p, 0, remote_mrs[r][p][0].addr + 8, BufBase(r),
                           add, FALSE, 0)
    \/ \E r \in Ranks : \E p \in Others(r) : RcExecute(r, p, 0)

InitFaa ==
    InitFrom([r \in Hosts(FaaRanks) |-> Registered(r, <<RcRegion(r)>>, 1)])

SpecFaa == InitFaa /\ [][NextFaa]_vars

(***************************************************************************)
(* Concurrent field fetch-and-add                                          *)
(***************************************************************************)

\* The fields of a word: <<highest_bit, lowest_bit>>.
FieldRanges ==
    {f \in (0 .. (WordBits - 1)) \X (0 .. (WordBits - 1)) : f[2] <= f[1]}

\* The values added, some of them too large for the narrow fields.
FieldAdds == 1 .. MaxFieldAdd

\* Every rank registers its buffer, connects once to each peer, and then adds
\* to fields of the word at offset 8 of any peer's buffer, fetching into the
\* head of its own; the NICs carry the additions out when they like.
NextField ==
    \/ \E r \in Ranks : CasWins(r) /\ Establish(r, 1, 1, 0)
    \/ \E r \in Ranks : OpeningBarrier(r, 1)
    \/ \E r \in Ranks : PeerEstablishSend(r, 1)
    \/ \E r \in Ranks : PeerEstablishRecv(r, 1, 0)
    \/ \E r \in Ranks : ClosingBarrier(r, 1)
    \/ \E r \in Ranks : \E p \in Others(r) :
       \E add \in FieldAdds : \E f \in FieldRanges :
          /\ posted.rc < MaxFieldFaas
          /\ pc[r][1] = Idle
          /\ PostFieldAtomicFaa(r, p, 0, remote_mrs[r][p][0].addr + 8,
                                BufBase(r), add, f[1], f[2], FALSE, 0)
    \/ \E r \in Ranks : \E p \in Others(r) : RcExecute(r, p, 0)

SpecField == InitFaa /\ [][NextField]_vars

(***************************************************************************)
(* The blocking polls, one ibv_poll_cq at a time                           *)
(***************************************************************************)

\* A poll that asks for a full chunk whatever is left to take.
ChunkLenFull(m) == PollChunk

\* int m = n - i; if (m > 32) m = 32;
ChunkLen(m) == IF m > PollChunk THEN PollChunk ELSE m

\* The NIC gives up on the oldest work request of RC end i of rank r towards
\* p (the retries are exhausted): the request completes in error, the queue
\* pair enters the error state and the requests behind it are flushed, each
\* with a completion in error, signaled or not.
RcFail(r, p, i) ==
    /\ i \in DOMAIN rcs[r][p]
    /\ rcs[r][p][i].sq # << >>
    /\ rcs[r][p][i].qp.state = "RTS"
    /\ rcs' = [rcs EXCEPT
                  ![r][p][i].send_cq =
                      @ \o [k \in DOMAIN rcs[r][p][i].sq |->
                               Cqe(rcs[r][p][i].sq[k], "ERROR")],
                  ![r][p][i].sq = << >>,
                  ![r][p][i].qp.state = "Error"]
    /\ RcFixed
    /\ UNCHANGED <<last, posted, mem, prog, rp, barrier>>

\* poll_send_cq(n) and poll_send_cq(wc_arr, n) are entered: i = 0, res = 0.
\* (prog: cur is n, i the loop variable, j is res, seen the entries taken so
\* far, of which the last j are in wc_arr.)
PollBegin(r, n, with_arr) ==
    /\ up[r] /\ pc[r][1] = Idle
    /\ prog[r].at = "start"
    /\ prog' = [prog EXCEPT ![r].at = IF with_arr THEN "poll_arr" ELSE "poll",
                            ![r].cur = n, ![r].i = 0, ![r].j = 0]
    /\ RcFixed
    /\ UNCHANGED <<rcs, last, posted, mem, rp, barrier>>

\* The entries the loop the caller is in still asks for: m of the chunk in
\* poll_send_cq(n), n in poll_send_cq(wc_arr, n).
PollWants(r) ==
    IF prog[r].at = "poll" THEN ChunkLen(prog[r].cur - prog[r].i)
    ELSE prog[r].cur

\* res += ibv_poll_cq(send_cq, m - res, wc_arr + res) with entries on the CQ:
\* the NIC hands over some of them, m - res at most, oldest first.
PollCq(r, p, k) ==
    /\ prog[r].at \in {"poll", "poll_arr"}
    /\ PollWants(r) > prog[r].j
    /\ k <= PollWants(r) - prog[r].j
    /\ k <= Len(rcs[r][p][0].send_cq)
    /\ rcs' = [rcs EXCEPT ![r][p][0].send_cq = SubSeq(@, k + 1, Len(@))]
    /\ prog' = [prog EXCEPT
                   ![r].seen = @ \o SubSeq(rcs[r][p][0].send_cq, 1, k),
                   ![r].j = @ + k]
    /\ RcFixed
    /\ UNCHANGED <<last, posted, mem, rp, barrier>>

\* The while loop is left with res = m: the status of the m entries in wc_arr
\* is examined, then the next chunk begins or the call returns, n from
\* poll_send_cq(n) and res from poll_send_cq(wc_arr, n).
PollCheck(r, p) ==
    /\ prog[r].at \in {"poll", "poll_arr"}
    /\ PollWants(r) <= prog[r].j
    /\ LET n == prog[r].cur
           res == prog[r].j
           wc_arr == SubSeq(prog[r].seen, Len(prog[r].seen) - res + 1,
                            Len(prog[r].seen))
           more == prog[r].at = "poll" /\ prog[r].i + PollChunk < n
           failed == AnyFailed(wc_arr)
       IN /\ prog' = [prog EXCEPT
                        ![r].at = IF failed THEN "aborted"
                                  ELSE IF more THEN @ ELSE "done",
                        ![r].i = IF ~failed /\ more THEN @ + PollChunk ELSE @,
                        ![r].j = IF ~failed /\ more THEN 0 ELSE @]
          /\ last' = IF ~failed /\ more THEN last
                     ELSE [fn |-> IF prog[r].at = "poll" THEN "poll_send_cq"
                                  ELSE "poll_send_cq_arr",
                           rank |-> r,
                           out |-> IF failed THEN Aborted
                                   ELSE IF prog[r].at = "poll" THEN n ELSE res,
                           peer |-> p, id |-> 0, wcs |-> wc_arr]
    /\ RcFixed
    /\ UNCHANGED <<rcs, posted, mem, rp, barrier>>

\* poll_send_cq_once(wc_arr, n), the only polling call of the run.
PollOnce(r, p, n) ==
    /\ pc[r][1] = Idle
    /\ prog[r].at = "start"
    /\ RcPollOnce(r, p, 0, n)
    /\ prog' = [prog EXCEPT ![r].at = After("done"),
                            ![r].seen = last'.wcs, ![r].cur = n]
    /\ RcFixed
    /\ UNCHANGED <<posted, mem, rp, barrier>>

\* The client posts signaled WRITEs, then makes one polling call; the NICs
\* carry the requests out, or give up on them, when they like.
NextPoll ==
    \/ \E r \in Ranks : CasWins(r) /\ Establish(r, 1, 1, 0)
    \/ \E r \in Ranks : OpeningBarrier(r, 1)
    \/ \E r \in Ranks : PeerEstablishSend(r, 1)
    \/ \E r \in Ranks : PeerEstablishRecv(r, 1, 0)
    \/ \E r \in Ranks : ClosingBarrier(r, 1)
    \/ /\ posted.rc < MaxPolled
       /\ prog[CLIENT].at = "start"
       /\ PostWrite(CLIENT, SERVER, 0, BufBase(SERVER) + 64, BufBase(CLIENT),
                    8, TRUE, posted.rc)
    \/ RcExecute(CLIENT, SERVER, 0)
    \/ RcFail(CLIENT, SERVER, 0)
    \/ \E n \in 1 .. MaxPolled, with_arr \in BOOLEAN :
          posted.rc = MaxPolled /\ PollBegin(CLIENT, n, with_arr)
    \/ \E k \in 1 .. MaxPolled : PollCq(CLIENT, SERVER, k)
    \/ PollCheck(CLIENT, SERVER)
    \/ \E n \in 1 .. MaxPolled : PollOnce(CLIENT, SERVER, n)

SpecPoll == InitCas /\ [][NextPoll]_vars

(***************************************************************************)
(* Batch posts                                                             *)
(***************************************************************************)

\* A batch whose first element is the signaled one.
BatchSignaledFirst(i, count) == i = 0

\* if (i == count - 1) send_flags = IBV_SEND_SIGNALED
BatchSignaled(i, count) == i = count - 1

\* The common shape of the post_batch_* methods: every element's local range
\* is matched (and, for the atomics, its local and remote address checked for
\* alignment), then every element's remote range, and only then the chain is
\* handed to ibv_post_send, which queues it in array order.
RcPostBatch(fn, r, p, i, wrs, atomic) ==
    /\ up[r]
    /\ i \in DOMAIN rcs[r][p]
    /\ rcs[r][p][i].qp.state = "RTS"
    /\ LET full == [k \in DOMAIN wrs |->
                      [wrs[k] EXCEPT
                          !.lkey = match_mr_lkey(r, wrs[k].laddr, wrs[k].size),
                          !.rkey = match_remote_mr_rkey(r, p, wrs[k].raddr,
                                                        wrs[k].size),
                          !.seq = posted.rc + k]]
       IN IF \E k \in DOMAIN wrs :
                \/ atomic /\ Misaligned(wrs[k].laddr)
                \/ atomic /\ Misaligned(wrs[k].raddr)
                \/ full[k].lkey = Aborted
                \/ full[k].rkey = Aborted
          THEN /\ last' = RcCall(fn, r, p, i, Aborted, wrs)
               /\ UNCHANGED rcs
          ELSE /\ last' = RcCall(fn, r, p, i, 0, full)
               /\ rcs' = [rcs EXCEPT ![r][p][i].sq = @ \o full]
    /\ posted' = [posted EXCEPT !.rc = @ + Len(wrs)]
    /\ PostFrame

\* ReliableConnection::post_batch_read (c and d keep wr_id_start and count
\* for the record).
PostBatchRead(r, p, i, dst_arr, src_arr, size_arr, count, wr_id_start) ==
    RcPostBatch("post_batch_read", r, p, i,
                [k \in 1 .. count |->
                    WR("READ", wr_id_start + (k - 1),
                       BatchSignaled(k - 1, count), dst_arr[k], size_arr[k],
                       src_arr[k], 0, 0, wr_id_start, count)],
                FALSE)

\* ReliableConnection::post_batch_masked_atomic_faa
PostBatchMaskedAtomicFaa(r, p, i, dst_arr, fetch_arr, add_arr, boundary_arr, count, wr_id_start) ==
    RcPostBatch("post_batch_masked_atomic_faa", r, p, i,
                [k \in 1 .. count |->
                    WR("MASKED_FAA", wr_id_start + (k - 1),
                       BatchSignaled(k - 1, count), fetch_arr[k], 8,
                       dst_arr[k], add_arr[k], boundary_arr[k], wr_id_start,
                       count)],
                TRUE)

\* The sequences of length 1 .. MaxBatch over S.
Arrays(S) == UNION {[1 .. n -> S] : n \in 1 .. MaxBatch}

\* The client posts batches of READs and of masked fetch-and-adds, and single
\* atomics, to aligned and misaligned words of the server's buffer; the NIC
\* carries the requests out and the client polls.
NextBatch ==
    \/ \E r \in Ranks : CasWins(r) /\ Establish(r, 1, 1, 0)
    \/ \E r \in Ranks : OpeningBarrier(r, 1)
    \/ \E r \in Ranks : PeerEstablishSend(r, 1)
    \/ \E r \in Ranks : PeerEstablishRecv(r, 1, 0)
    \/ \E r \in Ranks : ClosingBarrier(r, 1)
    \/ \E dst_arr \in Arrays({BufBase(SERVER) + 8, BufBase(SERVER) + 4}) :
       \E wr_id_start \in {0, 5} :
          /\ posted.rc < MaxBatchPosts
          /\ PostBatchMaskedAtomicFaa(CLIENT, SERVER, 0, dst_arr,
                [k \in DOMAIN dst_arr |-> BufBase(CLIENT) + 8 * k],
                [k \in DOMAIN dst_arr |-> k], [k \in DOMAIN dst_arr |-> 0],
                Len(dst_arr), wr_id_start)
    \/ \E src_arr \in Arrays({BufBase(SERVER) + 8, BufBase(SERVER) + 4}) :
          /\ posted.rc < MaxBatchPosts
          /\ PostBatchRead(CLIENT, SERVER, 0,
                [k \in DOMAIN src_arr |-> BufBase(CLIENT) + 8 * k], src_arr,
                [k \in DOMAIN src_arr |-> 4], Len(src_arr), 1)
    \/ \E dst \in {BufBase(SERVER) + 8, BufBase(SERVER) + 4} :
          /\ posted.rc < MaxBatchPosts
          /\ \/ PostAtomicCas(CLIENT, SERVER, 0, dst, BufBase(CLIENT), 1, TRUE, 0)
             \/ PostAtomicFaa(CLIENT, SERVER, 0, dst, BufBase(CLIENT), 1, TRUE, 0)
             \/ PostMaskedAtomicCas(CLIENT, SERVER, 0, dst, BufBase(CLIENT), 1, 1, 1, TRUE, 0)
             \/ PostFieldAtomicFaa(CLIENT, SERVER, 0, dst, BufBase(CLIENT), 1, WordBits - 1, 0, TRUE, 0)
             \/ PostMaskedAtomicFaa(CLIENT, SERVER, 0, dst, BufBase(CLIENT), 1, 0, TRUE, 0)
    \/ RcExecute(CLIENT, SERVER, 0)
    \/ PollSendCq(CLIENT, SERVER, 0, 1)

SpecBatch == InitCas /\ [][NextBatch]_vars

(***************************************************************************)
(* Bring-up with a CQ-sharing policy                                       *)
(***************************************************************************)

\* ReliableConnection::ReliableConnection(peer, id, send_cq, recv_cq): the QP
\* is created on the CQs handed in.
NewRCShared(id, qpn, send_cq, recv_cq) ==
    [NewRC(id, qpn) EXCEPT !.send_cq_ptr = send_cq, !.recv_cq_ptr = recv_cq]

\* The first test of the loop of Peer::establish(num_rc, share_cq_with): slot i
\* gets CQs of its own.
OwnCqs(share_cq_with, i) == share_cq_with[i] < 0 \/ share_cq_with[i] = i

\* The second test of the loop: the policy of slot i is invalid.
InvalidShare(share_cq_with, i) == share_cq_with[i] > i

\* The loop of Peer::establish(num_rc, share_cq_with) from slot i on, `made`
\* being the RC ends of the slots before i: the ends made, and whether the loop
\* ran to its end without Emergency::abort.
RECURSIVE ShareLoop(_, _, _, _, _)
ShareLoop(share_cq_with, i, num_rc, qpn, made) ==
    IF i >= num_rc THEN [rcs |-> made, ok |-> TRUE]
    ELSE IF OwnCqs(share_cq_with, i)
    THEN ShareLoop(share_cq_with, i + 1, num_rc, qpn,
                   [j \in Slots(i + 1) |->
                       IF j < i THEN made[j] ELSE NewRC(i, qpn + i)])
    ELSE IF InvalidShare(share_cq_with, i)
    THEN [rcs |-> made, ok |-> FALSE]
    ELSE LET with == made[share_cq_with[i]]
         IN ShareLoop(share_cq_with, i + 1, num_rc, qpn,
                      [j \in Slots(i + 1) |->
                          IF j < i THEN made[j]
                          ELSE NewRCShared(i, qpn + i, with.send_cq_ptr,
                                           with.recv_cq_ptr)])

\* Cluster::establish(num_rc, share_cq_with) up to the opening barrier: the
\* once-only CAS, then the policy is kept for the peer loop.
EstablishShare(r, t, num_rc, share_cq_with) ==
    /\ pc[r][t].at = "idle"
    /\ CasWins(r)
    /\ connected' = [connected EXCEPT ![r] = TRUE]
    /\ barrier' = [barrier EXCEPT ![r] = @ + 1]
    /\ pc' = [pc EXCEPT ![r][t] =
                 [at |-> "barrier1", num_rc |-> num_rc, num_xrc |-> 0, i |-> 0]]
    /\ est' = [est EXCEPT ![r] = <<num_rc, 0, share_cq_with>>]
    /\ UNCHANGED <<ctxVars, planeVars, rcVars, refcnt, peerVars, nicVars, oob,
                   runs, up, faults, ret, extra>>

\* Peer::establish(num_rc, share_cq_with) up to the send half of MPI_Sendrecv,
\* or up to the abort of an invalid policy.
PeerEstablishShare(r, t) ==
    /\ pc[r][t].at = "peer"
    /\ Len(est[r]) = 3
    /\ LET p == pc[r][t].i
           num_rc == pc[r][t].num_rc
           loop == ShareLoop(est[r][3], 0, num_rc, next_qpn[r], << >>)
       IN /\ rcs' = [rcs EXCEPT ![r][p] = loop.rcs]
          /\ next_qpn' = [next_qpn EXCEPT ![r] = @ + Size(loop.rcs)]
          /\ refcnt' = [refcnt EXCEPT ![r] = @ + Size(loop.rcs)]
          /\ runs' = [runs EXCEPT ![r][p] = @ + 1]
          /\ qp_log' = [qp_log EXCEPT ![r][p] = << >>]
          /\ IF loop.ok
             THEN /\ oob' = [oob EXCEPT ![r][p] =
                                Append(@, LocalXchg(r, loop.rcs, << >>))]
                  /\ sent_mrs' = [sent_mrs EXCEPT ![r][p] =
                                     [i \in Slots(nmrs[r]) |-> mrs[r][i]]]
                  /\ pc' = [pc EXCEPT ![r][t].at = "xchg"]
                  /\ UNCHANGED ret
             ELSE /\ pc' = [pc EXCEPT ![r][t] = Idle]
                  /\ ret' = [ret EXCEPT ![r][t] = Ret("abort", num_rc, 0, FALSE)]
                  /\ UNCHANGED <<oob, sent_mrs>>
    /\ UNCHANGED <<ctxVars, planeVars, rcVars, connected, xrcs, nrmrs, remote_mrs,
                   xrc_srq_nums, next_srqn, barrier, est, up, extra, faults>>

\* The policies a caller passes for num_rc slots.
Policies(num_rc) == [Slots(num_rc) -> (0 - 2) .. num_rc]

\* One thread per rank brings the cluster up with a CQ-sharing policy.
NextShare ==
    \/ \E r \in Ranks, num_rc \in 1 .. MaxShareRc :
          \E share_cq_with \in Policies(num_rc) :
              EstablishShare(r, 1, num_rc, share_cq_with)
    \/ \E r \in Ranks : OpeningBarrier(r, 1)
    \/ \E r \in Ranks : PeerEstablishShare(r, 1)
    \/ \E r \in Ranks : PeerEstablishRecv(r, 1, 0)
    \/ \E r \in Ranks : ClosingBarrier(r, 1)

SpecShare == Init /\ [][NextShare]_vars

(***************************************************************************)
(* Partial commits                                                         *)
(***************************************************************************)

\* A sub-range that always starts at the head of the object.
PartAtHead(ptr, offset) == ptr

\* remote_ptr + offset, local_ptr + offset
PartAt(ptr, offset) == ptr + offset

\* rptr::commit(offset, len, sync) up to poll_send_cq: a valid pointer posts a
\* signaled WRITE of len bytes at the offset, an invalid one does nothing; the
\* range is not checked against sizeof(T).
CommitPart(r, offset, len, sync) ==
    /\ rp[r].at = "idle"
    /\ IF rp[r].valid
       THEN /\ RcPost("post_write", r, rp[r].peer, 0,
                      WR("WRITE", 0, TRUE, PartAt(rp[r].local, offset), len,
                         PartAt(rp[r].remote, offset), 0, 0, 0, 0),
                      TRUE, FALSE)
            /\ rp' = [rp EXCEPT ![r].at = After(IF sync THEN "commit_poll"
                                                ELSE "idle"),
                                ![r].seq = posted.rc + 1]
       ELSE /\ RptrCalled
            /\ UNCHANGED rp
    /\ RcFixed
    /\ UNCHANGED <<mem, prog, barrier>>

\* The sub-ranges callers commit: the word of the object, or the word after it.
PartRanges == {<<0, 8>>, <<8, 8>>}

\* One rank constructs an rptr, validates or invalidates it, stores into its
\* buffer and commits the object or a sub-range, synchronously or not.
NextPart ==
    \/ \E r \in Ranks : CasWins(r) /\ Establish(r, 1, 1, 0)
    \/ \E r \in Ranks : OpeningBarrier(r, 1)
    \/ \E r \in Ranks : PeerEstablishSend(r, 1)
    \/ \E r \in Ranks : PeerEstablishRecv(r, 1, 0)
    \/ \E r \in Ranks : ClosingBarrier(r, 1)
    \/ \E r \in Ranks : \E p \in Others(r) :
          /\ \A q \in Ranks : rp[q].at = "none"
          /\ RptrNew(r, p, BufBase(p), FALSE)
    \/ \E r \in Ranks : \E p \in Others(r) : RcExecute(r, p, 0)
    \/ \E r \in Ranks : CommitReturn(r)
    \/ /\ posted.rc < MaxRptrCalls
       /\ \/ \E r \in Ranks, valid \in BOOLEAN : Validate(r, valid)
          \/ \E r \in Ranks, sync \in BOOLEAN : Commit(r, sync)
          \/ \E r \in Ranks, g \in PartRanges, sync \in BOOLEAN :
                CommitPart(r, g[1], g[2], sync)
          \/ \E r \in Ranks, v \in RptrVals, g \in PartRanges :
                rp[r].at = "idle" /\ Store(r, rp[r].local + g[1], v + 1)

SpecPart == InitRc /\ [][NextPart]_vars

(***************************************************************************)
(* rptr: masked compare-and-swap                                           *)
(***************************************************************************)

\* rptr::masked_compare_exchange up to poll_send_cq: the local copy is set to
\* compare and a masked CAS is posted, signaled if sync.
MaskedCompareExchange(r, compare, compare_mask, exchange, exchange_mask, sync) ==
    /\ rp[r].at = "idle"
    /\ mem' = Stored(mem, r, rp[r].local, compare)
    /\ RcPost("post_masked_atomic_cas", r, rp[r].peer, 0,
              WR("MASKED_CAS", 0, sync, rp[r].local, 8, rp[r].remote, compare,
                 exchange, compare_mask, exchange_mask),
              TRUE, TRUE)
    /\ rp' = [rp EXCEPT ![r].at = After(IF sync THEN "mcx_poll"
                                        ELSE "mcx_return"),
                        ![r].seq = posted.rc + 1,
                        ![r].a = compare, ![r].b = exchange]
    /\ RcFixed
    /\ UNCHANGED <<prog, barrier>>

\* rptr::masked_compare_exchange from poll_send_cq on: one completion if sync,
\* then validate() and the comparison of the local copy with compare.
MaskedCompareExchangeReturn(r) ==
    /\ rp[r].at \in {"mcx_poll", "mcx_return"}
    /\ IF rp[r].at = "mcx_poll" THEN RcPoll(r, rp[r].peer, 0, 1)
       ELSE UNCHANGED <<rcs, last>>
    /\ rp' = [rp EXCEPT
                 ![r].at = IF rp[r].at = "mcx_poll" THEN After("idle")
                           ELSE "idle",
                 ![r].valid = TRUE,
                 ![r].ret = RptrRet("masked_compare_exchange",
                                    IF Load(r, rp[r].local) = rp[r].a THEN 1
                                    ELSE 0,
                                    rp[r].seq, rp[r].a,
                                    IF rp[r].at = "mcx_poll" THEN 1 ELSE 0)]
    /\ RcFixed
    /\ UNCHANGED <<posted, mem, prog, barrier>>

\* The masks and the values callers pass, and the values the owner stores.
CasMasks == {1, 3}
CasVals == {0, 2, 3}

\* One rank constructs an rptr and compare-exchanges through it under masks,
\* synchronously or not, while the owner of the remote word stores into it.
NextMasked ==
    \/ \E r \in Ranks : CasWins(r) /\ Establish(r, 1, 1, 0)
    \/ \E r \in Ranks : OpeningBarrier(r, 1)
    \/ \E r \in Ranks : PeerEstablishSend(r, 1)
    \/ \E r \in Ranks : PeerEstablishRecv(r, 1, 0)
    \/ \E r \in Ranks : ClosingBarrier(r, 1)
    \/ \E r \in Ranks : \E p \in Others(r) :
          /\ \A q \in Ranks : rp[q].at = "none"
          /\ RptrNew(r, p, BufBase(p), FALSE)
    \/ \E r \in Ranks : \E p \in Others(r) : RcExecute(r, p, 0)
    \/ \E r \in Ranks : MaskedCompareExchangeReturn(r)
    \/ /\ posted.rc < MaxMaskedCalls
       /\ \/ \E r \in Ranks, c, x \in CasVals, cm, xm \in CasMasks :
                \E sync \in BOOLEAN :
                    MaskedCompareExchange(r, c, cm, x, xm, sync)
          \/ \E r \in Ranks, v \in CasVals :
                rp[r].at = "idle" /\ Store(rp[r].peer, rp[r].remote, v)

SpecMasked == InitRc /\ [][NextMasked]_vars

(***************************************************************************)
(* Termination of the bring-up                                             *)
(***************************************************************************)

\* Peer::establish with MPI_Barrier before the exchange, up to that barrier:
\* the connections are created and the barrier is entered.
PeerEstablishEnter(r, t) ==
    /\ pc[r][t].at = "peer"
    /\ LET p == pc[r][t].i
           num_rc == pc[r][t].num_rc
           num_xrc == pc[r][t].num_xrc
       IN /\ rcs' = [rcs EXCEPT ![r][p] =
                        [i \in Slots(num_rc) |-> NewRC(i, next_qpn[r] + i)]]
          /\ xrcs' = [xrcs EXCEPT ![r][p] =
                         [i \in Slots(num_xrc) |->
                             NewXRC(i, next_srqn[r] + i,
                                    next_qpn[r] + num_rc + 2 * i)]]
          /\ next_qpn' = [next_qpn EXCEPT ![r] = @ + num_rc + 2 * num_xrc]
          /\ next_srqn' = [next_srqn EXCEPT ![r] = @ + num_xrc]
          /\ refcnt' = [refcnt EXCEPT ![r] = @ + num_rc + num_xrc]
          /\ runs' = [runs EXCEPT ![r][p] = @ + 1]
          /\ qp_log' = [qp_log EXCEPT ![r][p] = << >>]
    /\ barrier' = [barrier EXCEPT ![r] = @ + 1]
    /\ pc' = [pc EXCEPT ![r][t].at = "peer_barrier"]
    /\ UNCHANGED <<ctxVars, planeVars, rcVars, connected, nrmrs, remote_mrs,
                   xrc_srq_nums, sent_mrs, oob, ret, est, up, extra, faults>>

\* The same from the return of its MPI_Barrier to the send half of
\* MPI_Sendrecv.
PeerEstablishLeave(r, t) ==
    /\ pc[r][t].at = "peer_barrier"
    /\ BarrierOpen(r)
    /\ LET p == pc[r][t].i
       IN /\ oob' = [oob EXCEPT ![r][p] =
                        Append(@, LocalXchg(r, rcs[r][p], xrcs[r][p]))]
          /\ sent_mrs' = [sent_mrs EXCEPT ![r][p] =
                             [i \in Slots(nmrs[r]) |-> mrs[r][i]]]
    /\ pc' = [pc EXCEPT ![r][t].at = "xchg"]
    /\ UNCHANGED <<ctxVars, planeVars, rcVars, refcnt, connected, rcs, xrcs,
                   nrmrs, remote_mrs, xrc_srq_nums, qp_log, nicVars, barrier,
                   ret, est, runs, up, extra, faults>>

\* A cluster of 2 to LiveRanks ranks, each with its buffer registered.
InitLive ==
    \E n \in 2 .. LiveRanks :
        InitFrom([r \in Hosts(n) |-> Registered(r, <<RcRegion(r)>>, 1)])

\* The counts every rank passes.
LiveCounts == {<<1, 0>>, <<0, 1>>}

\* Every rank calls establish once, all with the same counts; Peer::establish
\* is the variant without a barrier.
NextLive ==
    \/ \E r \in Ranks, a \in LiveCounts :
          /\ \A q \in Ranks : connected[q] => est[q] = a
          /\ CasWins(r) /\ Establish(r, 1, a[1], a[2])
    \/ \E r \in Ranks : OpeningBarrier(r, 1)
    \/ \E r \in Ranks : PeerEstablishSend(r, 1)
    \/ \E r \in Ranks : PeerEstablishRecv(r, 1, 0)
    \/ \E r \in Ranks : ClosingBarrier(r, 1)

\* MPI makes progress and a thread that can go on does.
SpecLive == InitLive /\ [][NextLive]_vars /\ WF_vars(NextLive)

\* The same with the variant of Peer::establish that enters MPI_Barrier before
\* the exchange.
NextLiveBarrier ==
    \/ \E r \in Ranks, a \in LiveCounts :
          /\ \A q \in Ranks : connected[q] => est[q] = a
          /\ CasWins(r) /\ Establish(r, 1, a[1], a[2])
    \/ \E r \in Ranks : OpeningBarrier(r, 1)
    \/ \E r \in Ranks : PeerEstablishEnter(r, 1)
    \/ \E r \in Ranks : PeerEstablishLeave(r, 1)
    \/ \E r \in Ranks : PeerEstablishRecv(r, 1, 0)
    \/ \E r \in Ranks : ClosingBarrier(r, 1)

SpecLiveBarrier == InitLive /\ [][NextLiveBarrier]_vars /\ WF_vars(NextLiveBarrier)

(***************************************************************************)
(* A timed call on a stalled NIC                                           *)
(***************************************************************************)

\* One rank constructs an rptr and makes timed field additions through it
\* while time passes; the NICs carry nothing out.
NextStall ==
    \/ \E r \in Ranks : CasWins(r) /\ Establish(r, 1, 1, 0)
    \/ \E r \in Ranks : OpeningBarrier(r, 1)
    \/ \E r \in Ranks : PeerEstablishSend(r, 1)
    \/ \E r \in Ranks : PeerEstablishRecv(r, 1, 0)
    \/ \E r \in Ranks : ClosingBarrier(r, 1)
    \/ \E r \in Ranks : \E p \in Others(r) :
          /\ \A q \in Ranks : rp[q].at = "none"
          /\ RptrNew(r, p, BufBase(p), FALSE)
    \/ \E r \in Ranks : Tick(r)
    \/ \E r \in Ranks : TimelimitRound(r)
    \/ \E r \in Ranks, us \in 0 .. MaxElapsed, sync \in BOOLEAN :
          /\ posted.rc < MaxPosts
          /\ FieldFetchAddTimelimit(r, us, 1, WordBits - 1, 0, sync)

\* The clock advances and the caller's loop goes on.
SpecStall == InitRc /\ [][NextStall]_vars /\ WF_vars(NextStall)

(***************************************************************************)
(* rptr: fetch-and-add, and the cache after the pointer's own atomics      *)
(***************************************************************************)

\* rptr::fetch_add up to poll_send_cq: a FAA is posted, signaled if sync.
FetchAdd(r, add, sync) ==
    /\ rp[r].at = "idle"
    /\ RcPost("post_atomic_faa", r, rp[r].peer, 0,
              WR("FAA", 0, sync, rp[r].local, 8, rp[r].remote, add, 0, 0, 0),
              TRUE, TRUE)
    /\ rp' = [rp EXCEPT ![r].at = After(IF sync THEN "faa_poll" ELSE "faa_return"),
                        ![r].seq = posted.rc + 1,
                        ![r].a = add, ![r].b = 0]
    /\ RcFixed
    /\ UNCHANGED <<mem, prog, barrier>>

\* rptr::fetch_add from poll_send_cq on: one completion if sync, then
\* validate() and the local copy is returned.
FetchAddReturn(r) ==
    /\ rp[r].at \in {"faa_poll", "faa_return"}
    /\ IF rp[r].at = "faa_poll" THEN RcPoll(r, rp[r].peer, 0, 1)
       ELSE UNCHANGED <<rcs, last>>
    /\ rp' = [rp EXCEPT
                 ![r].at = IF rp[r].at = "faa_poll" THEN After("idle")
                           ELSE "idle",
                 ![r].valid = TRUE,
                 ![r].ret = RptrRet("fetch_add", Load(r, rp[r].local),
                                    rp[r].seq, rp[r].a, 0)]
    /\ RcFixed
    /\ UNCHANGED <<posted, mem, prog, barrier>>

\* One rank constructs an rptr<uint64_t>, dereferences and invalidates it and
\* makes synchronous compare_exchange and fetch_add calls through it; nobody
\* else writes the remote word or the local copy.
NextCoherent ==
    \/ \E r \in Ranks : CasWins(r) /\ Establish(r, 1, 1, 0)
    \/ \E r \in Ranks : OpeningBarrier(r, 1)
    \/ \E r \in Ranks : PeerEstablishSend(r, 1)
    \/ \E r \in Ranks : PeerEstablishRecv(r, 1, 0)
    \/ \E r \in Ranks : ClosingBarrier(r, 1)
    \/ \E r \in Ranks : \E p \in Others(r) :
          /\ \A q \in Ranks : rp[q].at = "none"
          /\ RptrNew(r, p, BufBase(p), FALSE)
    \/ \E r \in Ranks : \E p \in Others(r) : RcExecute(r, p, 0)
    \/ \E r \in Ranks : DerefReturn(r)
    \/ \E r \in Ranks : CompareExchangeReturn(r)
    \/ \E r \in Ranks : FetchAddReturn(r)
    \/ /\ posted.rc < MaxCoherentCalls
       /\ \/ \E r \in Ranks : Deref(r)
          \/ \E r \in Ranks : Validate(r, FALSE)
          \/ \E r \in Ranks, c \in RptrVals : CompareExchange(r, c, c + 1, TRUE)
          \/ \E r \in Ranks, add \in RptrVals : FetchAdd(r, add, TRUE)

SpecCoherent == InitRc /\ [][NextCoherent]_vars

(***************************************************************************)
(* The capacity of the OOB record                                          *)
(***************************************************************************)

\* The entries of OOBExchange::rc_qp_num.
RcCapacity == MaxThreads * MaxThreads

\* The entries of each of xrc_ini_qp_num, xrc_tgt_qp_num and xrc_srq_num.
XrcCapacity == MaxThreads

\* Counts a caller passes: within the arrays, one past the RC array, one past
\* the XRC arrays, and the pairs the validity check turns away.
OobCounts ==
    {<<1, 0>>, <<0, 1>>, <<RcCapacity + 1, 0>>, <<0, XrcCapacity + 1>>,
     <<0, 0>>, <<0 - 1, 1>>}

\* One thread per rank calls establish with any of these counts; the ranks
\* that are let through bring the cluster up.
NextOob ==
    \/ \E r \in Ranks, a \in OobCounts :
          /\ extra < MaxExtra
          /\ CasWins(r)
          /\ Establish(r, 1, a[1], a[2])
    \/ \E r \in Ranks : OpeningBarrier(r, 1)
    \/ \E r \in Ranks : PeerEstablishSend(r, 1)
    \/ \E r \in Ranks : PeerEstablishRecv(r, 1, 0)
    \/ \E r \in Ranks : ClosingBarrier(r, 1)

SpecOob == Init /\ [][NextOob]_vars

(***************************************************************************)
(* verbose()                                                               *)
(***************************************************************************)

\* ReliableConnection::verbose
RCVerbose(rc) == IF rc.qp.state # "RTS" THEN 0 - 1 ELSE 0

\* ExtendedReliableConnection::verbose
XRCVerbose(xrc) ==
    IF xrc.ini_qp.state # "RTS" \/ xrc.tgt_qp.state # "RTS" THEN 0 - 1 ELSE 0

\* Peer::verbose: the RC ends in slot order, the first nonzero result returned;
\* the XRC ends of the Peer are not visited.
PeerVerbose(r, p) ==
    IF \E i \in DOMAIN rcs[r][p] : RCVerbose(rcs[r][p][i]) # 0
    THEN 0 - 1 ELSE 0

\* Cluster::verbose: asks every Peer, nonzero if one of them reports nonzero.
ClusterVerbose(r) ==
    IF \E p \in Others(r) : PeerVerbose(r, p) # 0 THEN 0 - 1 ELSE 0

(***************************************************************************)
(* Properties of the bring-up                                              *)
(***************************************************************************)

\* Every QP rank r has created is in Ready-to-Send.
AllRTS(r) ==
    \A p \in Others(r) :
        /\ \A i \in DOMAIN rcs[r][p] : rcs[r][p][i].qp.state = "RTS"
        /\ \A i \in DOMAIN xrcs[r][p] :
              /\ xrcs[r][p][i].ini_qp.state = "RTS"
              /\ xrcs[r][p][i].tgt_qp.state = "RTS"

\* Rank r holds, for every peer, the connections its bring-up call asked for.
Populated(r) ==
    \A p \in Others(r) :
        /\ DOMAIN rcs[r][p] = Slots(est[r][1])
        /\ DOMAIN xrcs[r][p] = Slots(est[r][2])

C2_ReturnImpliesRTS ==
    [][\A r \in Ranks : \A t \in Threads :
          (ret'[r][t] # ret[r][t] /\ ret'[r][t].kind \in {"noop", "bringup"})
              => AllRTS(r)']_vars

\* C3: the bring-up call has returned on a rank only if every rank of the
\* cluster holds all the connections it asked for, each QP in Ready-to-Send.
C3_ReturnAfterAllRTS ==
    \A r \in Ranks : up[r] =>
        \A q \in Ranks : Populated(q) /\ AllRTS(q)
                         /\ \A p \in Others(q) : runs[q][p] = 1

\* C3 witness: a rank has returned from bring-up with RC and XRC ends.
C3_Witness ==
    \E r \in Ranks : up[r] /\ est[r][1] > 0 /\ est[r][2] > 0

\* The state of rank r that Cluster::establish and Peer::establish write.
ClusterState(r) ==
    <<connected[r], rcs[r], xrcs[r], nrmrs[r], remote_mrs[r], xrc_srq_nums[r],
      barrier[r], pc[r], runs[r], oob[r], next_qpn[r], next_srqn[r], refcnt[r]>>

C6_SecondCallFatal ==
    \A r \in Ranks : \A t \in Threads :
        ~( /\ ret[r][t].kind = "noop" /\ ret[r][t].late
           /\ <<ret[r][t].num_rc, ret[r][t].num_xrc>> # est[r] )

XrcLog(r, p, i) ==
    SelectSeq(qp_log[r][p], LAMBDA c : c.conn = "xrc" /\ c.id = i)

\* The order the claim states for XRC slot i of rank r towards peer p.
XrcOrder(r, p, i) ==
    << <<"ini", "Init", 0>>, <<"tgt", "Init", 0>>,
       <<"ini", "RTR", xrcs[p][r][i].tgt_qp.qp_num>>,
       <<"tgt", "RTR", xrcs[p][r][i].ini_qp.qp_num>>,
       <<"ini", "RTS", 0>>, <<"tgt", "RTS", 0>> >>

\* C8: for every XRC slot both ends hold, the transitions made so far are the
\* first ones of: initiator to Init, target to Init, initiator to RTR towards
\* the remote target QP, target to RTR towards the remote initiator QP,
\* initiator to RTS, target to RTS; the QPs are in the states those
\* transitions leave; and once both ends are through, the initiator of one
\* and the target of the other name each other.
C8_XrcWiring ==
    \A r \in Ranks : \A p \in Others(r) :
        \A i \in DOMAIN xrcs[r][p] \cap DOMAIN xrcs[p][r] :
            LET log == XrcLog(r, p, i)
                mine == xrcs[r][p][i]
                theirs == xrcs[p][r][i]
            IN /\ Len(log) <= 6
               /\ \A k \in 1 .. Len(log) :
                     <<log[k].qp, log[k].to,
                       IF log[k].to = "RTR" THEN log[k].dest_qp_num ELSE 0>>
                         = XrcOrder(r, p, i)[k]
               /\ mine.ini_qp.state =
                     CASE Len(log) = 0 -> "Reset"
                       [] Len(log) \in 1 .. 2 -> "Init"
                       [] Len(log) \in 3 .. 4 -> "RTR"
                       [] OTHER -> "RTS"
               /\ mine.tgt_qp.state =
                     CASE Len(log) \in 0 .. 1 -> "Reset"
                       [] Len(log) \in 2 .. 3 -> "Init"
                       [] Len(log) \in 4 .. 5 -> "RTR"
                       [] OTHER -> "RTS"
               /\ (Len(log) = 6 /\ Len(XrcLog(p, r, i)) = 6) =>
                     /\ mine.ini_qp.dest_qp_num = theirs.tgt_qp.qp_num
                     /\ theirs.tgt_qp.dest_qp_num = mine.ini_qp.qp_num
                     /\ mine.ini_qp.dlid = Lid(p)
                     /\ theirs.tgt_qp.dlid = Lid(r)

\* C8 witness: XRC slot 1 is wired on both ends of a pair of ranks.
C8_Witness ==
    \E r \in Ranks : \E p \in Others(r) :
        /\ 1 \in DOMAIN xrcs[r][p] \cap DOMAIN xrcs[p][r]
        /\ Len(XrcLog(r, p, 1)) = 6 /\ Len(XrcLog(p, r, 1)) = 6

(***************************************************************************)
(* Properties of the XRC data plane                                        *)
(***************************************************************************)

\* The receive completions of rank r: <<peer, slot, position in the recv CQ>>.
RecvDone(r) ==
    {c \in XrcEnds(r) \X (1 .. MaxRecvs) :
        c[2] <= Len(xrcs[r][c[1][1]][c[1][2]].recv_cq)}

RecvCqe(r, c) == xrcs[r][c[1][1]][c[1][2]].recv_cq[c[2]]

\* C9 (the claim as stated): a SEND posted with remote_id below the number of
\* XRC ends of the remote node completes with Success, the receive it
\* consumes is one posted on the SRQ of the remote slot remote_id and
\* completes with Success on that slot's recv CQ, holding the sender's bytes;
\* no SEND is consumed twice and no receive completes twice.
C9_SendReachesSlot ==
    \A r \in Ranks :
        /\ \A e \in XrcEnds(r) :
              \A k \in 1 .. Len(xrcs[r][e[1]][e[2]].send_cq) :
                  xrcs[r][e[1]][e[2]].send_cq[k].status = "Success"
        /\ \A c \in RecvDone(r) :
              /\ RecvCqe(r, c).status = "Success"
              /\ RecvCqe(r, c).remote_id = c[1][2]
              /\ RecvCqe(r, c).data = Payload(RecvCqe(r, c).src[1],
                                              RecvCqe(r, c).src[2])
              /\ \A d \in RecvDone(r) \ {c} :
                    /\ RecvCqe(r, d).wr_id # RecvCqe(r, c).wr_id
                    /\ RecvCqe(r, d).src_wr_id # RecvCqe(r, c).src_wr_id

(***************************************************************************)
(* Properties of key matching                                              *)
(***************************************************************************)

\* The table the last match call scanned, and the key it reads from a slot.
MatchedTable ==
    IF matched.fn = "lkey" THEN mrs[matched.rank]
    ELSE remote_mrs[matched.rank][matched.peer]

MatchedKey(i) ==
    IF matched.fn = "lkey" THEN MatchedTable[i].lkey ELSE MatchedTable[i].rkey

\* The slots, registered when the call was made, that cover the range asked for.
Covering ==
    {i \in Slots(matched.n) :
        /\ matched.addr >= MatchedTable[i].addr
        /\ matched.addr + matched.size
              <= MatchedTable[i].addr + MatchedTable[i].length}

RegMrStep(r) ==
    /\ posted'.reg = posted.reg + 1
    /\ last'.fn = "reg_mr"
    /\ last'.rank = r

\* C12: the k-th successful reg_mr call of a Context returns slot k - 1 and
\* stores the region there with the keys of the NIC; a call made with
\* MaxMrs regions registered, or one the NIC rejects, returns -1 and leaves
\* the count and every slot as they were; no call changes a slot that
\* already holds a region.
C12_RegMrSlots ==
    [][\A r \in Ranks : RegMrStep(r) =>
          /\ \A k \in Slots(nmrs[r]) : mrs'[r][k] = mrs[r][k]
          /\ IF nmrs[r] >= MaxMrs \/ ~last'.nic_ok
                THEN /\ last'.out = 0 - 1
                     /\ nmrs'[r] = nmrs[r]
                     /\ mrs'[r] = mrs[r]
                     /\ posted'.regd[r] = posted.regd[r]
                ELSE /\ posted'.regd[r] = posted.regd[r] + 1
                     /\ last'.out = posted'.regd[r] - 1
                     /\ nmrs'[r] = nmrs[r] + 1
                     /\ mrs'[r][last'.out] =
                            [addr |-> last'.addr, length |-> last'.size,
                             lkey |-> NicLkey(r, last'.out),
                             rkey |-> NicRkey(r, last'.out)]
                     /\ \A k \in Slots(MaxMrs) \ {last'.out} :
                            mrs'[r][k] = mrs[r][k]]_vars

\* A call the NIC would have accepted was refused because the table is full:
\* the fifth successful-looking call of a Context that holds MaxMrs regions.
C12_Witness ==
    /\ last.fn = "reg_mr"
    /\ last.nic_ok
    /\ last.out = 0 - 1
    /\ nmrs[last.rank] = MaxMrs
    /\ posted.regd[last.rank] = MaxMrs
    /\ posted.reg > MaxMrs

(***************************************************************************)
(* Properties of the destructors                                           *)
(***************************************************************************)

\* The step is Context::~Context on the Context of rank r.
DestructorStep(r) == life[r].ctx /\ ~life'[r].ctx

\* C13: a Context destroyed while its dependency counter is above zero
\* releases nothing; one destroyed with the counter at zero deregisters its
\* MRs in slot order, then closes the XRC domain, then deallocates the
\* protection domain, then closes the device.
C13_ReleaseOrder ==
    [][\A r \in Ranks : DestructorStep(r) =>
          IF refcnt[r] > 0
          THEN life'[r].log = life[r].log
          ELSE /\ Len(life'[r].log) = Len(life[r].log) + nmrs[r] + 3
               /\ SubSeq(life'[r].log, 1, Len(life[r].log)) = life[r].log
               /\ LET done(i) == life'[r].log[Len(life[r].log) + i]
                  IN /\ \A i \in 1 .. nmrs[r] :
                           done(i) = [op |-> "ibv_dereg_mr",
                                      arg |-> NicLkey(r, i - 1)]
                     /\ done(nmrs[r] + 1).op = "ibv_close_xrcd"
                     /\ done(nmrs[r] + 2).op = "ibv_dealloc_pd"
                     /\ done(nmrs[r] + 3).op = "ibv_close_device"]_vars

\* One rank destroyed its Context after its Cluster, which had been brought
\* up, and released everything; another destroyed its Context first and
\* released nothing.
C13_Witness ==
    \E r \in Ranks, q \in Ranks :
        /\ ~life[r].ctx /\ ~life[r].cluster /\ up[r]
        /\ Len(life[r].log) = nmrs[r] + 3
        /\ ~life[q].ctx /\ life[q].cluster /\ up[q]
        /\ life[q].log = << >>

(***************************************************************************)
(* Properties of the RC data plane                                         *)
(***************************************************************************)

\* A region of the table tab, of which n slots are in use, covers
\* [addr, addr + size).
CoveredBy(tab, n, addr, size) ==
    \E k \in Slots(n) :
        addr >= tab[k].addr /\ addr + size <= tab[k].addr + tab[k].length

\* The call c had a local or, for a one-sided operation, a remote range that
\* no region covers.
Uncovered(c) ==
    \/ ~CoveredBy(mrs[c.rank], nmrs[c.rank], c.wr.laddr, c.wr.size)
    \/ /\ c.wr.op \notin {"SEND", "RECV"}
       /\ ~CoveredBy(remote_mrs[c.rank][c.peer], nrmrs[c.rank][c.peer],
                     c.wr.raddr, c.wr.size)

\* C11: match_mr_lkey and match_remote_mr_rkey abort, returning no key, when
\* no region of the table (not one of an empty table either) covers the range
\* asked for; and a post_read, post_write, post_send, post_recv or atomic
\* post whose local range, or whose remote range, is covered by no region
\* aborts and leaves every send and receive queue as it was.
C11_UncoveredAborts ==
    [][/\ posted'.match = posted.match + 1 =>
             (Covering' = {} => matched'.out = Aborted)
       /\ posted'.rc = posted.rc + 1 =>
             (Uncovered(last') => last'.out = Aborted /\ rcs' = rcs)]_vars

\* A post_write whose local range is covered was refused because the table
\* of the peer's regions is empty, after a post_recv of the rank was queued.
C11_Witness ==
    /\ last.fn = "post_write" /\ last.out = Aborted
    /\ CoveredBy(mrs[last.rank], nmrs[last.rank], last.wr.laddr, last.wr.size)
    /\ nrmrs[last.rank][last.peer] = 0
    /\ rcs[last.rank][last.peer][0].rq # << >>

\* The step is a poll_send_cq call on RC end i of rank r towards p.
PollStep(r, p, i) ==
    /\ i \in DOMAIN rcs[r][p]
    /\ i \in DOMAIN rcs'[r][p]
    /\ Len(rcs'[r][p][i].send_cq) < Len(rcs[r][p][i].send_cq)

\* The WRITEs of a send queue that the NIC has not carried out yet.
PendingWrites(sq) == {k \in DOMAIN sq : sq[k].op = "WRITE"}

\* C14 (the claim as stated): when the poster has drained a signaled
\* completion of a queue pair, every WRITE posted on that queue pair with a
\* work request id at or below the id of the completion has been carried out
\* on the remote memory, whatever ids the caller chose.
C14_ByWrId ==
    [][\A r \in Ranks : \A p \in Others(r) : \A i \in Slots(MaxConn) :
          PollStep(r, p, i) =>
             \A j \in DOMAIN last'.wcs :
                \A k \in PendingWrites(rcs'[r][p][i].sq) :
                   ~(last'.wcs[j].wr_id >= rcs'[r][p][i].sq[k].wr_id)]_vars

\* C14 (amended): when the poster has drained the completion of a signaled
\* work request of a queue pair, every WRITE posted on that queue pair before
\* that work request, and that work request itself if it is a WRITE, has been
\* carried out on the remote memory.
C14_ByPostOrder ==
    [][\A r \in Ranks : \A p \in Others(r) : \A i \in Slots(MaxConn) :
          PollStep(r, p, i) =>
             \A j \in DOMAIN last'.wcs :
                \A k \in PendingWrites(rcs'[r][p][i].sq) :
                   ~(last'.wcs[j].seq >= rcs'[r][p][i].sq[k].seq)]_vars

\* The poster has drained the completion of a work request posted after an
\* unsignaled WRITE that carried a higher id, the WRITE has been carried out,
\* and a later WRITE of the queue pair is still pending.
C14_Witness ==
    /\ last.fn = "poll_send_cq" /\ last.out = 1
    /\ \E h \in DOMAIN hist :
          /\ hist[h].op = "WRITE"
          /\ hist[h].rank = last.rank /\ hist[h].peer = last.peer
          /\ hist[h].seq < last.wcs[1].seq
          /\ hist[h].wr_id > last.wcs[1].wr_id
    /\ PendingWrites(rcs[last.rank][last.peer][last.id].sq) # {}

(***************************************************************************)
(* Properties of the test programs                                         *)
(***************************************************************************)

\* C15: in the ring program every rank i posts a signaled WRITE of its
\* message to offset 64 of MR 0 of rank (i + 1) mod N, polls one completion
\* and calls sync(); what rank i then reads at offset 64 of its own buffer is
\* the message of rank (i - 1) mod N.
C15_RingDelivers ==
    \A r \in Ranks :
        /\ prog[r].at # "aborted"
        /\ \A p \in Others(r) : \A i \in DOMAIN rcs[r][p] :
              \A k \in DOMAIN rcs[r][p][i].sq :
                 LET wr == rcs[r][p][i].sq[k]
                 IN /\ wr.op = "WRITE" /\ wr.signaled
                    /\ p = (r + 1) % RingSize
                    /\ wr.raddr = mrs[p][0].addr + 64
        /\ prog[r].at \in {"sync", "in_sync", "done"} =>
              \E h \in DOMAIN hist :
                 /\ hist[h].rank = r /\ hist[h].op = "WRITE"
                 /\ hist[h].peer = (r + 1) % RingSize
        /\ prog[r].at = "done" =>
              prog[r].seen = << ((r + RingSize - 1) % RingSize) + 1 >>

\* Every rank of the ring has printed what it received.
C15_Witness ==
    /\ Cardinality(Ranks) = RingSize
    /\ \A r \in Ranks : prog[r].at = "done" /\ Len(prog[r].seen) = 1

(***************************************************************************)
(* Properties of rptr                                                      *)
(***************************************************************************)

\* The operation the NICs carried out for post number seq, if they have.
Executed(seq) == {h \in DOMAIN hist : hist[h].seq = seq}

\* C16: compare_exchange(expected, desired, sync), with sync true or false,
\* returns true if and only if the remote word equalled expected just before
\* the CAS was carried out; the remote word is then desired, and otherwise
\* unchanged.
C16_CasResult ==
    \A r \in Ranks :
        rp[r].ret.fn = "compare_exchange" =>
            \A h \in Executed(rp[r].ret.seq) :
                /\ (rp[r].ret.out = 1) <=> (hist[h].old = rp[r].ret.a)
                /\ hist[h].new = IF hist[h].old = rp[r].ret.a
                                 THEN rp[r].ret.b ELSE hist[h].old

\* The step is a dereference of the rptr of rank r that was valid, one that
\* posts, or the return of one that has posted.
DerefCached(r) ==
    rp[r].at = "idle" /\ rp'[r].at = "idle" /\ rp[r].valid
        /\ posted'.rc = posted.rc + 1
        /\ rp'[r].ret.fn = "deref" /\ rp'[r].ret.seq = 0
        /\ rp'[r].valid /\ rp'[r].remote = rp[r].remote
        /\ mem' = mem /\ last' = last
DerefPosts(r) == rp[r].at = "idle" /\ rp'[r].at = "deref_poll"
DerefReturns(r) == rp[r].at = "deref_poll" /\ rp'[r].at = "idle"

\* C20: a dereference of a valid rptr posts nothing, so that successive
\* dereferences with no invalidate(), validate(false) or re-targeting between
\* them issue one READ at most, on the first of them; a dereference of an
\* invalid rptr, as the first one after invalidate(), issues exactly one READ
\* and returns the value that READ fetched from the remote word.
C20_OneReadThenCached ==
    [][\A r \in Ranks :
          /\ DerefCached(r) => rcs' = rcs /\ rp'[r].reads = rp[r].reads
          /\ DerefPosts(r) =>
                /\ ~rp[r].valid
                /\ rp'[r].reads = rp[r].reads + 1
                /\ LET sq == rcs[r][rp[r].peer][0].sq
                   IN rcs'[r][rp[r].peer][0].sq =
                         Append(sq, last'.wr) /\ last'.wr.op = "READ"
          /\ DerefReturns(r) =>
                /\ rp'[r].reads = rp[r].reads
                /\ \E h \in Executed(rp'[r].ret.seq) :
                      /\ hist[h].op = "READ"
                      /\ rp'[r].ret.out = hist[h].old]_vars

\* The CASes the NICs have carried out, in the order they did.
CasDone == SelectSeq(hist, LAMBDA h : h.op = "CAS")

\* C17: the client posts its CASes on one queue pair in pipelined batches,
\* only the last of a batch signaled and batch i + 1 posted before batch i is
\* polled; the NIC carries them out in post order, each finds the value its
\* predecessor wrote, and the values the client reads back are 0, 1, 2, ...
C17_CasOrdered ==
    /\ \A k \in DOMAIN CasDone :
          /\ CasDone[k].old = (k - 1) % WordMod
          /\ CasDone[k].new = k % WordMod
          /\ CasDone[k].wr_id = (k - 1) % Batch
    /\ prog[CLIENT].at = "check" => Len(CasDone) >= prog[CLIENT].i * Batch
    /\ \A k \in DOMAIN prog[CLIENT].seen :
          prog[CLIENT].seen[k] = (k - 1) % WordMod
    /\ prog[CLIENT].at # "aborted"

\* The client has checked every batch and both programs have ended, and a
\* batch was posted while the one before it was still unpolled.
C17_Witness ==
    /\ prog[CLIENT].at = "done" /\ prog[SERVER].at = "done"
    /\ Len(prog[CLIENT].seen) = NTests * Batch
    /\ Len(CasDone) = NTests * Batch

\* The fetch-and-adds carried out on the word at address a, in the order the
\* NIC of its owner carried them out, and the sum of their deltas.
FaasOn(a) == SelectSeq(hist, LAMBDA h : h.op = "FAA" /\ h.raddr = a)
RECURSIVE DeltaSum(_)
DeltaSum(F) == IF F = << >> THEN 0 ELSE (F[1].a + DeltaSum(Tail(F))) % WordMod

\* C18: fetch-and-adds posted by different ranks on different queue pairs to
\* one remote word are atomic: each fetches the value the word held just
\* before its own addition, the fetched values are the prefix sums of the
\* order in which they were carried out, and the word ends up as its initial
\* value (0) plus the sum of all deltas modulo 2^WordBits.
C18_FaaAtomic ==
    /\ \A p \in Ranks : \A a \in WordAddrs(p) :
          LET F == FaasOn(a)
          IN /\ \A k \in DOMAIN F :
                   /\ F[k].old = DeltaSum(SubSeq(F, 1, k - 1))
                   /\ F[k].new = (F[k].old + F[k].a) % WordMod
             /\ (\A h \in DOMAIN hist :
                    /\ hist[h].raddr = a => hist[h].op = "FAA"
                    /\ hist[h].laddr # a)
                   => mem[p][a] = DeltaSum(F)
    /\ hist # << >> /\ hist[Len(hist)].op = "FAA"
          => Load(hist[Len(hist)].rank, hist[Len(hist)].laddr)
                = hist[Len(hist)].old

\* Two ranks have added to the same word of a third, the second addition
\* fetching what the first left there.
C18_Witness ==
    \E p \in Ranks : \E a \in WordAddrs(p) :
        LET F == FaasOn(a)
        IN /\ Len(F) >= 2
           /\ F[1].rank # F[2].rank
           /\ F[1].new # 0
           /\ F[2].old = F[1].new

\* Bits lo .. hi of x, as a number.
FieldOf(x, hi, lo) == (x \div (2 ^ lo)) % (2 ^ (hi - lo + 1))

\* C19: a field fetch-and-add on bits lowest_bit .. highest_bit changes only
\* those bits of the remote word, whatever the value added: the field becomes
\* (old field + add) mod 2^(highest_bit - lowest_bit + 1) and every bit
\* outside the field keeps its value. (The work request carries add shifted
\* to the field, whose bits lowest_bit .. highest_bit are add modulo the
\* field's size.)
C19_FieldOnly ==
    \A k \in DOMAIN hist :
        LET h == hist[k]
            hi == h.c
            lo == h.d
        IN h.op = "MASKED_FAA" =>
              /\ FieldOf(h.new, hi, lo)
                    = (FieldOf(h.old, hi, lo) + FieldOf(h.a, hi, lo))
                         % (2 ^ (hi - lo + 1))
              /\ \A b \in 0 .. (WordBits - 1) :
                    (b < lo \/ b > hi) => Bit(h.new, b) = Bit(h.old, b)

\* C21: every dereference of an rptr to a volatile T, whether the pointer is
\* valid or not and whatever was committed, validated or compare-exchanged
\* before, posts exactly one signaled READ and takes exactly one completion
\* off the send CQ before it returns; none returns the local copy unread.
C21_VolatileAlwaysReads ==
    [][\A r \in Ranks :
          rp[r].volatile =>
             LET sq == rcs[r][rp[r].peer][0].sq
                 cq == rcs[r][rp[r].peer][0].send_cq
             IN /\ DerefPosts(r) =>
                      /\ rp'[r].reads = rp[r].reads + 1
                      /\ rcs'[r][rp[r].peer][0].sq = Append(sq, last'.wr)
                      /\ last'.wr.op = "READ" /\ last'.wr.signaled
                      /\ rcs'[r][rp[r].peer][0].send_cq = cq
                /\ DerefReturns(r) =>
                      /\ rp'[r].reads = rp[r].reads
                      /\ rcs'[r][rp[r].peer][0].sq = sq
                      /\ cq # << >>
                      /\ rcs'[r][rp[r].peer][0].send_cq = Tail(cq)
                /\ rp'[r].ret.fn = "deref" =>
                      /\ rp'[r].ret.seq # 0
                      /\ ~DerefCached(r)]_vars

\* A volatile pointer that was valid has been dereferenced again, and that
\* dereference posted a READ of its own and has returned.
C21_Witness ==
    \E r \in Ranks :
        /\ rp[r].volatile /\ rp[r].valid /\ rp[r].at = "idle"
        /\ rp[r].reads >= 2
        /\ rp[r].ret.fn = "deref"
        /\ \E h \in DOMAIN hist : hist[h].op \in {"WRITE", "CAS"}

\* C22: after commit() on an rptr whose local copy holds v, whether the
\* pointer was valid before the call or not, a fresh rptr constructed on the
\* same connection and remote address and then dereferenced yields v.
C22_CommitThenFreshRead ==
    \A r \in Ranks :
        /\ rp[r].local = BufBase(r) + 16
        /\ rp[r].committed # << >>
        /\ rp[r].ret.fn = "deref"
        => rp[r].ret.out = rp[r].committed[1]

\* C23: field_fetch_add_timelimit reports *success = false only when the
\* microseconds elapsed since the post have reached the limit; a call whose
\* time is not up goes on polling, and so reports *success = true if the
\* completion of its atomic arrives in time.
C23_TimelimitHonest ==
    \A r \in Ranks :
        rp[r].ret.fn = "field_fetch_add_timelimit" /\ rp[r].ret.out = 0
            => rp[r].ret.a >= rp[r].ret.b

\* The completions the client has taken off its send CQ followed by those
\* still on it.
AllCompletions == prog[CLIENT].seen \o rcs[CLIENT][SERVER][0].send_cq

\* C24: poll_send_cq(n) and poll_send_cq(wc_arr, n) return only after exactly
\* n completions were taken off the CQ, for every n >= 1, also above the
\* chunk size and not a multiple of it: never more than n are taken, none is
\* lost or taken twice between chunks, the call returns n, and the wc_arr
\* variant hands the caller the n entries in CQ order.
C24_PollTakesExactlyN ==
    0 \in DOMAIN rcs[CLIENT][SERVER] /\ prog[CLIENT].at # "start" =>
       /\ \A k \in DOMAIN AllCompletions : AllCompletions[k].seq = k
       /\ prog[CLIENT].at \in {"poll", "poll_arr", "aborted"}
             => Len(prog[CLIENT].seen) <= prog[CLIENT].cur
       /\ prog[CLIENT].at = "done" /\ last.fn # "poll_send_cq_once" =>
             /\ Len(prog[CLIENT].seen) = prog[CLIENT].cur
             /\ last.out = prog[CLIENT].cur
             /\ last.fn = "poll_send_cq_arr" => last.wcs = prog[CLIENT].seen

\* poll_send_cq(n) has returned for an n above the chunk size that is not a
\* multiple of it, and has left a completion on the CQ.
C24_Witness ==
    /\ prog[CLIENT].at = "done" /\ last.fn = "poll_send_cq"
    /\ prog[CLIENT].cur > PollChunk /\ prog[CLIENT].cur % PollChunk # 0
    /\ 0 \in DOMAIN rcs[CLIENT][SERVER]
    /\ rcs[CLIENT][SERVER][0].send_cq # << >>

\* C25: no polling call returns normally after it has taken a completion
\* whose status is not success off the CQ: each such call aborts; and
\* poll_send_cq_once examines exactly the entries it took, none included,
\* and returns their number without waiting.
C25_FailedCompletionAborts ==
    /\ prog[CLIENT].at = "done" =>
          \A k \in DOMAIN prog[CLIENT].seen :
              prog[CLIENT].seen[k].status = "SUCCESS"
    /\ AnyFailed(prog[CLIENT].seen) /\ prog[CLIENT].at \notin {"poll", "poll_arr"}
          => prog[CLIENT].at = "aborted" /\ last.out = Aborted
    /\ last.fn = "poll_send_cq_once" =>
          /\ last.wcs = prog[CLIENT].seen
          /\ Len(last.wcs) <= prog[CLIENT].cur
          /\ last.out # Aborted => last.out = Len(last.wcs)

\* A chunked poll has aborted in a later chunk, on a failed completion that
\* was not the first entry it took.
C25_Witness ==
    /\ prog[CLIENT].at = "aborted" /\ last.fn = "poll_send_cq"
    /\ prog[CLIENT].seen[1].status = "SUCCESS"
    /\ prog[CLIENT].i > 0

\* The atomic posts of one work request, and the step is a post.
SingleAtomics ==
    {"post_atomic_cas", "post_atomic_faa", "post_masked_atomic_cas",
     "post_field_atomic_faa", "post_masked_atomic_faa"}
PostStep == posted'.rc # posted.rc

\* C26: an atomic post whose remote address is not 8-byte aligned aborts
\* before any work request of the call is queued on the queue pair; one
\* misaligned element of a batch of masked fetch-and-adds keeps the whole
\* batch from being posted.
C26_MisalignedAtomicAborts ==
    [][PostStep =>
          /\ last'.fn \in SingleAtomics /\ last'.wr.raddr % 8 # 0
                => last'.out = Aborted /\ rcs' = rcs
          /\ last'.fn = "post_batch_masked_atomic_faa"
                /\ (\E k \in DOMAIN last'.wr : last'.wr[k].raddr % 8 # 0)
                => last'.out = Aborted /\ rcs' = rcs]_vars

\* A batch whose first element is aligned and whose second is not has
\* aborted, and the send queue and CQ are as empty as before.
C26_Witness ==
    /\ last.fn = "post_batch_masked_atomic_faa" /\ last.out = Aborted
    /\ Len(last.wr) = 2
    /\ last.wr[1].raddr % 8 = 0 /\ last.wr[2].raddr % 8 # 0
    /\ rcs[CLIENT][SERVER][0].sq = << >>
    /\ hist = << >>

\* The work request, or the record of one carried out, is part of a batch.
InBatch(w) == w.op \in {"READ", "MASKED_FAA"} /\ w.d > 0

\* The completions on the client's send CQ and those its last poll took.
BatchCompletions ==
    LET cq == rcs[CLIENT][SERVER][0].send_cq
    IN {cq[k] : k \in DOMAIN cq}
          \cup (IF last.fn = "poll_send_cq"
                THEN {last.wcs[k] : k \in DOMAIN last.wcs} ELSE {})

\* C30: a batch of count work requests is queued as one chain in array
\* order, element i with wr_id = wr_id_start + i and only the last one
\* signaled; the batch has one completion, with wr_id_start + count - 1, and
\* when it exists every element of the batch has been carried out, in order.
\* (c is wr_id_start and d is count in the requests of a batch.)
C30_BatchOneCompletion ==
    0 \in DOMAIN rcs[CLIENT][SERVER] =>
       /\ LET sq == rcs[CLIENT][SERVER][0].sq
          IN \A k \in DOMAIN sq :
                InBatch(sq[k]) =>
                   /\ sq[k].signaled <=> sq[k].wr_id = sq[k].c + sq[k].d - 1
                   /\ sq[k].wr_id < sq[k].c + sq[k].d - 1 =>
                         /\ k + 1 \in DOMAIN sq
                         /\ sq[k + 1].seq = sq[k].seq + 1
                         /\ sq[k + 1].wr_id = sq[k].wr_id + 1
                         /\ sq[k + 1].c = sq[k].c /\ sq[k + 1].d = sq[k].d
       /\ \A cqe \in BatchCompletions :
             /\ cqe.status = "SUCCESS"
             /\ Executed(cqe.seq) # {}
             /\ \A h \in Executed(cqe.seq) :
                   InBatch(hist[h]) =>
                      /\ cqe.wr_id = hist[h].c + hist[h].d - 1
                      /\ \A i \in 0 .. (hist[h].d - 1) :
                            LET g == h - (hist[h].d - 1) + i
                            IN /\ g \in DOMAIN hist
                               /\ hist[g].seq = cqe.seq - (hist[h].d - 1) + i
                               /\ hist[g].wr_id = hist[h].c + i
       /\ \A h \in DOMAIN hist :
             InBatch(hist[h]) /\ hist[h].wr_id < hist[h].c + hist[h].d - 1
                => \A cqe \in BatchCompletions : cqe.seq # hist[h].seq

\* The one completion of a batch of MaxBatch requests is on the send CQ, with
\* the id of the last element.
C30_Witness ==
    /\ 0 \in DOMAIN rcs[CLIENT][SERVER]
    /\ \E h \in DOMAIN hist :
          /\ hist[h].d = MaxBatch /\ hist[h].c = 5
          /\ hist[h].wr_id = 5 + MaxBatch - 1
          /\ Len(rcs[CLIENT][SERVER][0].send_cq) = 1
          /\ rcs[CLIENT][SERVER][0].send_cq[1].seq = hist[h].seq
          /\ rcs[CLIENT][SERVER][0].send_cq[1].wr_id = hist[h].wr_id
          /\ Len(hist) = MaxBatch

\* C27: a process has one Cluster at most: a second construction, on the same
\* or another Context, while the first exists or after it is gone, is fatal
\* and never returns a Cluster.
C27_OneClusterPerProcess ==
    /\ \A r \in Ranks : life[r].constructed <= 1
    /\ last.fn = "Cluster" => last.out = Aborted

\* C28 (the claim as stated): verbose() returns nonzero exactly when a queue
\* pair of the rank is not in Ready-to-Send, counting every RC queue pair and
\* the initiator and the target queue pair of every XRC end.
C28_VerboseIffNotRTS ==
    \A r \in Ranks : (ClusterVerbose(r) # 0) <=> ~AllRTS(r)

\* The policy rank r's bring-up call was given, if it was given one.
HasPolicy(r) == Len(est[r]) = 3

\* Rank r's Peer::establish(num_rc, share_cq_with) for peer p got past its
\* loop over the slots.
ShareAccepted(r, p) ==
    HasPolicy(r) /\ runs[r][p] = 1 /\ ret[r][1].kind # "abort"

\* C29 (the claim as stated): Peer::establish(num_rc, share_cq_with) accepts a
\* policy only if every slot i holds -1, i or an index below i, any other value
\* (above i or below -1) being fatal; an accepted slot holding -1 or i has CQs
\* no other slot of lower index uses, and one holding j < i has the send and
\* the receive CQ of RC j.
C29_SharePolicy ==
    \A r \in Ranks : \A p \in Others(r) :
        HasPolicy(r) /\ runs[r][p] = 1 =>
            LET share_cq_with == est[r][3]
                ends == rcs[r][p]
            IN IF \E i \in DOMAIN share_cq_with :
                      share_cq_with[i] > i \/ share_cq_with[i] < 0 - 1
               THEN ret[r][1].kind = "abort"
               ELSE /\ ShareAccepted(r, p)
                    /\ DOMAIN ends = DOMAIN share_cq_with
                    /\ \A i \in DOMAIN ends :
                          IF share_cq_with[i] \in {0 - 1, i}
                          THEN \A j \in DOMAIN ends :
                                  j < i => /\ ends[j].send_cq_ptr # ends[i].send_cq_ptr
                                           /\ ends[j].recv_cq_ptr # ends[i].recv_cq_ptr
                          ELSE /\ ends[i].send_cq_ptr = ends[share_cq_with[i]].send_cq_ptr
                               /\ ends[i].recv_cq_ptr = ends[share_cq_with[i]].recv_cq_ptr

\* The ibv_modify_qp calls of qp_log[r][p] on RC slot i, in order.
RcLog(r, p, i) ==
    SelectSeq(qp_log[r][p], LAMBDA c : c.conn = "rc" /\ c.id = i)

\* The states an RC queue pair is taken through, in order.
RcOrder == <<"Init", "RTR", "RTS">>

\* C31: the calls accepted on an RC queue pair are a prefix of Init, RTR, RTS
\* and the QP is in the state of the last one (Reset if none); a slot is
\* touched only when every slot before it has reached RTS; when Peer::establish
\* has returned normally every RC slot has gone all the way, and a QP that has
\* not is reported by verbose() as not Ready-to-Send and, once the connect loop
\* has stopped on it, its caller is on the abort path with no XRC transition
\* attempted after it.
C31_RcStateMachine ==
    \A r \in Ranks : \A p \in Others(r) : \A i \in DOMAIN rcs[r][p] :
        LET log == RcLog(r, p, i)
            qp == rcs[r][p][i].qp
        IN /\ Len(log) <= 3
           /\ \A k \in DOMAIN log : log[k].to = RcOrder[k]
           /\ qp.state = IF log = << >> THEN "Reset" ELSE log[Len(log)].to
           /\ log # << >> =>
                 \A j \in DOMAIN rcs[r][p] : j < i => Len(RcLog(r, p, j)) = 3
           /\ Len(log) < 3 =>
                 /\ RCVerbose(rcs[r][p][i]) # 0
                 /\ ~up[r]
                 /\ pc[r][1].at \in {"barrier2", "idle"} /\ runs[r][p] = 1
                       => /\ ret[r][1].kind = "abort"
                          /\ \A c \in DOMAIN qp_log[r][p] :
                                qp_log[r][p][c].conn = "rc"

\* C31 witness: the verbs layer has rejected the second transition of an RC
\* queue pair, which is left in Init with the caller on the abort path.
C31_Witness ==
    \E r \in Ranks : \E p \in Others(r) : \E i \in DOMAIN rcs[r][p] :
        /\ Len(RcLog(r, p, i)) = 1 /\ rcs[r][p][i].qp.state = "Init"
        /\ ret[r][1].kind = "abort"

\* The step appends to the send queue of the rptr's connection one signaled
\* WRITE of size bytes from laddr to raddr, and nothing else.
WritePosted(r, raddr, laddr, size) ==
    LET sq == rcs[r][rp[r].peer][0].sq
        sq2 == rcs'[r][rp[r].peer][0].sq
    IN /\ Len(sq2) = Len(sq) + 1 /\ SubSeq(sq2, 1, Len(sq)) = sq
       /\ sq2[Len(sq2)].op = "WRITE" /\ sq2[Len(sq2)].signaled
       /\ sq2[Len(sq2)].raddr = raddr /\ sq2[Len(sq2)].laddr = laddr
       /\ sq2[Len(sq2)].size = size

\* C32: commit(offset, length) posts a WRITE of exactly the bytes
\* [remote_ptr + offset, remote_ptr + offset + length) if the pointer is valid
\* at the call and posts nothing otherwise, and leaves the valid flag as it
\* was; commit() posts a WRITE of the sizeof(T) bytes of the object under the
\* same condition and ends with the flag set.
C32_CommitFrame ==
    [][\A r \in Ranks : \A g \in PartRanges : \A sync \in BOOLEAN :
          /\ CommitPart(r, g[1], g[2], sync) =>
                /\ rp'[r].valid = rp[r].valid
                /\ IF rp[r].valid
                   THEN WritePosted(r, rp[r].remote + g[1],
                                    rp[r].local + g[1], g[2])
                   ELSE rcs' = rcs
          /\ Commit(r, sync) =>
                /\ rp'[r].valid
                /\ IF rp[r].valid
                   THEN WritePosted(r, rp[r].remote, rp[r].local, 8)
                   ELSE rcs' = rcs]_vars

\* C32 witness: a valid pointer has committed the sub-range at offset 8, the
\* NIC has carried the WRITE out, and the pointer is still valid.
C32_Witness ==
    \E r \in Ranks :
        /\ rp[r].at = "idle" /\ rp[r].valid
        /\ \E h \in DOMAIN hist :
              /\ hist[h].op = "WRITE" /\ hist[h].rank = r
              /\ hist[h].raddr = rp[r].remote + 8
              /\ hist[h].laddr = rp[r].local + 8

\* C33 (the claim as stated): a synchronous masked_compare_exchange returns
\* true exactly when the remote word and compare agree on the bits of
\* compare_mask; then the bits of exchange_mask of the remote word have taken
\* the value of exchange and the others are as before, otherwise the word is
\* unchanged.
C33_MaskedCas ==
    \A r \in Ranks :
        /\ rp[r].ret.fn = "masked_compare_exchange"
        /\ rp[r].ret.b = 1 /\ rp[r].at = "idle"
        => \E h \in DOMAIN hist :
              /\ hist[h].seq = rp[r].ret.seq
              /\ (rp[r].ret.out = 1)
                    <=> MaskedEqual(hist[h].old, rp[r].ret.a, hist[h].c)
              /\ hist[h].new =
                    IF MaskedEqual(hist[h].old, rp[r].ret.a, hist[h].c)
                    THEN MaskedSwap(hist[h].old, hist[h].b, hist[h].d)
                    ELSE hist[h].old

\* The counts Cluster::establish refuses.
BadCounts(num_rc, num_xrc) == num_rc < 0 \/ num_xrc < 0 \/ (num_rc = 0 /\ num_xrc = 0)

\* C34: a call of establish with a negative count or with both counts zero on
\* a Cluster whose connected flag is false ends on the abort path at once: the
\* flag stays false, no barrier is entered and nothing of the cluster changes.
C34_BadCountsAbortFirst ==
    [][\A r \in Ranks : \A t \in Threads :
          /\ pc[r][t].at = "idle" /\ ~connected[r]
          /\ pc'[r][t] # pc[r][t] \/ ret'[r][t] # ret[r][t]
          /\ \/ BadCounts(pc'[r][t].num_rc, pc'[r][t].num_xrc)
                   /\ pc'[r][t].at # "idle"
             \/ BadCounts(ret'[r][t].num_rc, ret'[r][t].num_xrc)
                   /\ ret'[r][t] # ret[r][t]
          => /\ ret'[r][t].kind = "abort"
             /\ ~connected'[r]
             /\ ClusterState(r)' = ClusterState(r)]_vars

\* C34 witness: a call with bad counts was aborted on a rank that was not yet
\* connected, and a later call with valid counts has brought the cluster up.
C34_Witness ==
    \E r \in Ranks : \E t, u \in Threads :
        /\ ret[r][t].kind = "abort" /\ ~ret[r][t].late
        /\ BadCounts(ret[r][t].num_rc, ret[r][t].num_xrc)
        /\ ret[r][u].kind = "bringup" /\ up[r]

\* C35 (the claim as stated): when every rank calls establish once with the
\* same counts and the rendezvous layer is fair, every rank eventually
\* returns from establish.
C35_BringupTerminates == <>(\A r \in Ranks : up[r])

\* C36 (the claim as stated): with a NIC that never completes the atomic, a
\* synchronous field_fetch_add_timelimit that has entered its loop, whatever
\* its budget, eventually returns with *success = false.
C36_TimelimitReturns ==
    \A r \in Hosts(NumRanks) :
        (rp[r].at = "tl_loop")
            ~> (rp[r].at = "idle" /\ rp[r].ret.fn = "field_fetch_add_timelimit"
                                  /\ rp[r].ret.out = 0)

\* C37 (the claim as stated): whatever remote-pointer operations came before,
\* synchronous or not, the completion a polling operation takes off the send
\* CQ is that of the work request it posted itself.
C37_PollsOwnCompletion ==
    \A r \in Ranks :
        /\ rp[r].at \in {"idle", "aborted"}
        /\ last.fn = "poll_send_cq" /\ last.rank = r
        => \A j \in DOMAIN last.wcs : last.wcs[j].seq = rp[r].seq

\* C38 (the claim as stated): with no other writer of the remote word, a
\* dereference of a valid non-volatile rptr, also one that follows a
\* compare_exchange or fetch_add through the pointer, returns the value the
\* remote word holds.
C38_CacheCoherent ==
    [][\A r \in Ranks :
          DerefCached(r) /\ ~rp[r].volatile
              => rp'[r].ret.out = Load(rp[r].peer, rp[r].remote)]_vars

\* The Clusters of rank r that are alive: those constructed, less the first
\* once it has been destroyed.
LiveClusters(r) == life[r].constructed - (IF life[r].cluster THEN 0 ELSE 1)

\* The RC and XRC ends of rank r that are alive.
LiveEnds(r) ==
    LET RECURSIVE Sum(_)
        Sum(ps) == IF ps = {} THEN 0
                   ELSE LET p == CHOOSE q \in ps : TRUE
                        IN Cardinality(DOMAIN rcs[r][p])
                             + Cardinality(DOMAIN xrcs[r][p]) + Sum(ps \ {p})
    IN Sum(Ranks \ {r})

\* The live objects of rank r that reference its Context: every Cluster, a
\* Peer per other rank in every Cluster, every RC end and every XRC end.
LiveObjects(r) == LiveClusters(r) * (1 + Cardinality(Ranks \ {r})) + LiveEnds(r)

\* C39: the dependency counter of a Context equals the number of live
\* Clusters, Peers, RC ends and XRC ends that reference it, so it never passes
\* below zero and is zero once the Cluster is destroyed; a Context that has
\* released its resources has no live dependant.
C39_RefcntCountsLive ==
    \A r \in Ranks :
        /\ refcnt[r] = LiveObjects(r)
        /\ refcnt[r] >= 0
        /\ LiveClusters(r) = 0 => refcnt[r] = 0
        /\ life[r].log # << >> => LiveObjects(r) = 0

\* One rank, brought up with an RC and an XRC end to its peer, holds four
\* references and kept its resources when its Context was destroyed; another
\* destroyed its Cluster after the bring-up, dropped to zero and then released
\* its Context.
C39_Witness ==
    \E r \in Ranks, q \in Ranks :
        /\ up[r] /\ life[r].cluster /\ ~life[r].ctx
        /\ LiveEnds(r) = 2 /\ refcnt[r] = 4 /\ life[r].log = << >>
        /\ up[q] /\ ~life[q].cluster /\ ~life[q].ctx
        /\ refcnt[q] = 0 /\ life[q].log # << >>

\* The entries of the record xchg that fill_exchange wrote are entries of its
\* arrays.
XchgInBounds(xchg) ==
    /\ DOMAIN xchg.rc_qp_num \subseteq Slots(RcCapacity)
    /\ DOMAIN xchg.xrc_ini_qp_num \subseteq Slots(XrcCapacity)
    /\ DOMAIN xchg.xrc_tgt_qp_num \subseteq Slots(XrcCapacity)
    /\ DOMAIN xchg.xrc_srq_num \subseteq Slots(XrcCapacity)

\* C40 (the claim as stated): the counts establish lets through are within
\* the capacity of the OOB record's arrays, so that every record built during
\* the bring-up was written inside them and every slot the connect loops read
\* is one of their entries.
C40_OobInBounds ==
    \A r \in Ranks :
        /\ connected[r] => est[r][1] <= RcCapacity /\ est[r][2] <= XrcCapacity
        /\ \A p \in Others(r) :
              /\ \A k \in 1 .. Len(oob[r][p]) : XchgInBounds(oob[r][p][k])
              /\ DOMAIN rcs[r][p] \subseteq Slots(RcCapacity)
              /\ DOMAIN xrcs[r][p] \subseteq Slots(XrcCapacity)

====
